---- MODULE Spec2Model ----
(***************************************************************************)
(* Verification model of the MySQL NDB operator: the NdbCluster admission  *)
(* controller (pkg/webhook/ndb_admission_controller.go) and the            *)
(* reconciliation controller (pkg/controllers).                            *)
(*                                                                         *)
(* An optional value (a nil pointer, an absent JSON key) is a sequence of  *)
(* length 0 or 1: <<>> is nil/absent, <<v>> is present with value v.       *)
(***************************************************************************)
EXTENDS Integers, Sequences, FiniteSets, TLC

VARIABLES
    areq,    \* admission: the request being handled (kind, JSON document, old object)
    patch,   \* admission: the result of the last mutate call
    resp,    \* admission: the last AdmissionResponse of a validate call
    ndb,     \* API server store: the NdbCluster resource, <<>> when it does not exist
    config,  \* config map: the last written configuration version and its generation
    wl,      \* owned workloads: existence, template and live config version, readiness
    pass,    \* the reconciliation pass in progress (its own copy of the resource)
    storeRV, \* API server store: the last resourceVersion handed out
    review,  \* webhook server: the AdmissionReview being served, <<>> when none
    reply,   \* webhook server: the AdmissionResponse sent back, <<>> until sent
    wq,      \* controller: the rate limited workqueue of NdbCluster keys
    workers, \* controller: where each worker stands in processNextWorkItem
    adds,    \* per key, the Add calls since the key was last handed to a worker
    event,   \* informer: the notification being delivered, <<>> when none
    ndbsLister, \* informer cache: the NdbCluster object the lister returns
    restarted,  \* the controller process has been restarted
    fixture,    \* secrets: the API server's secrets, the recorded client
                \* actions, the cluster's secret name and EnsureSecret's result
    built,      \* builders: the cluster and the StatefulSets built for it
    testRunner  \* e2e test runner: the testRunner struct, the goroutines'
                \* positions and the signals and command outcomes to come

vars == <<areq, patch, resp, ndb, config, wl, pass, storeRV,
          review, reply, wq, workers, adds, event, ndbsLister, restarted,
          fixture, built, testRunner>>

admVars == <<areq, patch, resp>>
sysVars == <<ndb, config, wl, pass, storeRV>>
srvVars == <<review, reply>>
ctlVars == <<wq, workers, adds, event>>
cacheVars == <<ndbsLister, restarted, fixture>>
toolVars == <<built, testRunner>>

----------------------------------------------------------------------------
(* Bounds of the model *)

\* largest metadata.generation a stored resource reaches
MaxGen == 3
\* largest resourceVersion the store hands out
MaxRV == 6
\* largest node count a submitted document carries
MaxCount == 2
\* how far below zero submitted node counts range: NodeCount is a signed integer
MaxNeg == 1

nil == <<>>
Some(v) == <<v>>
IsNil(o) == o = <<>>
Val(o) == o[1]

Counts == (0 - MaxNeg)..MaxCount
OptCounts == {nil} \cup {Some(n) : n \in Counts}

\* number of worker goroutines Run starts (its threadiness argument)
NumWorkers == 2
\* the failure count from which the rate limiter's backoff no longer grows
MaxFailures == 2
\* the Add calls per key that are told apart; further ones count as the last
MaxAdds == 2

----------------------------------------------------------------------------
(* Resource model                                                          *)

\* The JSON document of spec.mysqld as the user submits it: keys may be absent.
MysqldDocs == [nodeCount : OptCounts, maxNodeCount : {nil} \cup {Some(n) : n \in 1..MaxCount}]

\* The JSON document of an NdbCluster spec.
Docs == [nodeCount : 0..MaxCount, mysqld : {nil} \cup {Some(m) : m \in MysqldDocs}]

\* Go's JSON decoding into a fresh v1alpha1.NdbCluster: an absent object is a
\* nil pointer, an absent number is the zero value.
DecodeInt(o) == IF IsNil(o) THEN 0 ELSE Val(o)

DecodeMysqld(o) ==
    IF IsNil(o) THEN nil
    ELSE Some([NodeCount |-> DecodeInt(Val(o).nodeCount),
               MaxNodeCount |-> DecodeInt(Val(o).maxNodeCount)])

DecodeSpec(doc) == [NodeCount |-> doc.nodeCount, Mysqld |-> DecodeMysqld(doc.mysqld)]

\* newObject() filled from the request bytes: the NdbCluster the handlers see.
NdbCluster(uid, gen, resVer, spec, pgen) ==
    [UID |-> uid, Generation |-> gen, ResourceVersion |-> resVer, Spec |-> spec,
     Status |-> [ProcessedGeneration |-> pgen]]

\* nc.HasValidSpec(): structural validation of a declared spec
\* (node counts within the supported bounds).
HasValidSpec(nc) ==
    /\ nc.Spec.NodeCount >= 1
    /\ IsNil(nc.Spec.Mysqld) \/ Val(nc.Spec.Mysqld).NodeCount >= 1

\* oldNC.IsValidSpecUpdate(newNC): the new spec is valid and the transition
\* is legal (a role cannot be removed once it is set).
IsValidSpecUpdate(oldNC, newNC) ==
    /\ HasValidSpec(newNC)
    /\ IsNil(newNC.Spec.Mysqld) => IsNil(oldNC.Spec.Mysqld)

----------------------------------------------------------------------------
(* Admission controller                                                    *)

requestAllowed == [Allowed |-> TRUE, Reason |-> ""]

requestDenied(reason) == [Allowed |-> FALSE, Reason |-> reason]

requestDeniedNdbInvalid == [Allowed |-> FALSE, Reason |-> "Invalid"]

\* errors.NewTooManyRequestsError: the status reason of the denial
TooManyRequests == "TooManyRequests"

\* mutant: the validation result is read the wrong way round
validateCreate_Inverted(nc) ==
    IF HasValidSpec(nc) THEN requestDeniedNdbInvalid
    ELSE requestAllowed

validateCreate(nc) ==
    IF ~HasValidSpec(nc) THEN requestDeniedNdbInvalid
    ELSE requestAllowed

\* mutant: the transition is validated before the generation check
validateUpdate_ValidatesFirst(newNC, oldNC) ==
    IF ~IsValidSpecUpdate(oldNC, newNC) THEN requestDeniedNdbInvalid
    ELSE IF oldNC.Status.ProcessedGeneration # oldNC.Generation
    THEN requestDenied(TooManyRequests)
    ELSE requestAllowed

\* mutant: the result of IsValidSpecUpdate is dropped
validateUpdate_NoSpecCheck(newNC, oldNC) ==
    IF oldNC.Status.ProcessedGeneration # oldNC.Generation
    THEN requestDenied(TooManyRequests)
    ELSE requestAllowed

\* mutant: the generation check is missing
validateUpdate_NoGenerationCheck(newNC, oldNC) ==
    IF ~IsValidSpecUpdate(oldNC, newNC) THEN requestDeniedNdbInvalid
    ELSE requestAllowed

\* mutant: the generation check reads the submitted object
validateUpdate_ChecksNewObject(newNC, oldNC) ==
    IF newNC.Status.ProcessedGeneration # newNC.Generation
    THEN requestDenied(TooManyRequests)
    ELSE IF ~IsValidSpecUpdate(oldNC, newNC) THEN requestDeniedNdbInvalid
    ELSE requestAllowed

validateUpdate(newNC, oldNC) ==
    IF oldNC.Status.ProcessedGeneration # oldNC.Generation
    THEN requestDenied(TooManyRequests)
    ELSE IF ~IsValidSpecUpdate(oldNC, newNC) THEN requestDeniedNdbInvalid
    ELSE requestAllowed

ADD == "add"
REPLACE == "replace"

\* JSON values carried by the patch operations of mutate
JObjNodeCount(n) == [t |-> "object", nodeCount |-> n]
JInt(n) == [t |-> "int", nodeCount |-> n]

newJsonPatchOperation(operation, path, value) ==
    [op |-> operation, path |-> path, value |-> value]

\* mutant: the injected default section carries the zero value
mutate_AddsZero(nc) ==
    IF IsNil(nc.Spec.Mysqld)
    THEN <<newJsonPatchOperation(ADD, "/spec/mysqld", JObjNodeCount(0))>>
    ELSE IF Val(nc.Spec.Mysqld).NodeCount = 0
    THEN <<newJsonPatchOperation(REPLACE, "/spec/mysqld/nodeCount", JInt(1))>>
    ELSE <<>>

\* mutant: a zero count is left as it is
mutate_KeepsZero(nc) ==
    IF IsNil(nc.Spec.Mysqld)
    THEN <<newJsonPatchOperation(ADD, "/spec/mysqld", JObjNodeCount(1))>>
    ELSE <<>>

\* mutant: a maximum derived from the count is patched in when it is unset
mutate_DerivesMax(nc) ==
    IF IsNil(nc.Spec.Mysqld)
    THEN <<newJsonPatchOperation(ADD, "/spec/mysqld", JObjNodeCount(1))>>
    ELSE (IF Val(nc.Spec.Mysqld).NodeCount = 0
          THEN <<newJsonPatchOperation(REPLACE, "/spec/mysqld/nodeCount", JInt(1))>>
          ELSE <<>>)
         \o (IF Val(nc.Spec.Mysqld).MaxNodeCount = 0
             THEN <<newJsonPatchOperation(ADD, "/spec/mysqld/maxNodeCount",
                        JInt(Val(nc.Spec.Mysqld).NodeCount))>>
             ELSE <<>>)

\* mutate returns (patch, err); a nil patch is the empty sequence.
mutate(nc) ==
    LET patchOperations ==
            IF IsNil(nc.Spec.Mysqld)
            THEN <<newJsonPatchOperation(ADD, "/spec/mysqld", JObjNodeCount(1))>>
            ELSE IF Val(nc.Spec.Mysqld).NodeCount = 0
            THEN <<newJsonPatchOperation(REPLACE, "/spec/mysqld/nodeCount", JInt(1))>>
            ELSE <<>>
    IN  patchOperations

----------------------------------------------------------------------------
(* RFC 6902 JSON patch, as the API server applies the webhook's patch to   *)
(* the request document.  "add" sets the member (the parent /spec always   *)
(* exists); "replace" needs the target member to exist.                    *)

PatchApplies(doc, p) ==
    \/ p.op = ADD /\ p.path = "/spec/mysqld"
    \/ p.op = ADD /\ p.path = "/spec/mysqld/nodeCount" /\ ~IsNil(doc.mysqld)
    \/ p.op = REPLACE /\ p.path = "/spec/mysqld" /\ ~IsNil(doc.mysqld)
    \/ /\ p.op = REPLACE /\ p.path = "/spec/mysqld/nodeCount"
       /\ ~IsNil(doc.mysqld)
       /\ ~IsNil(Val(doc.mysqld).nodeCount)

ApplyOp(doc, p) ==
    IF p.path = "/spec/mysqld"
    THEN [doc EXCEPT !.mysqld =
            Some([nodeCount |-> Some(p.value.nodeCount), maxNodeCount |-> nil])]
    ELSE [doc EXCEPT !.mysqld =
            Some([Val(doc.mysqld) EXCEPT !.nodeCount = Some(p.value.nodeCount)])]

RECURSIVE PatchAppliesAll(_, _)
PatchAppliesAll(doc, ops) ==
    IF ops = <<>> THEN TRUE
    ELSE /\ PatchApplies(doc, Head(ops))
         /\ PatchAppliesAll(ApplyOp(doc, Head(ops)), Tail(ops))

RECURSIVE ApplyPatch(_, _)
ApplyPatch(doc, ops) ==
    IF ops = <<>> THEN doc
    ELSE ApplyPatch(ApplyOp(doc, Head(ops)), Tail(ops))

----------------------------------------------------------------------------
(* Work queue: the rate limited, de-duplicating delay queue of NdbCluster  *)
(* keys (client-go workqueue.RateLimitingInterface).  dirty holds the keys *)
(* that need a pass, queue the order in which they can be popped,          *)
(* processing the keys handed to a worker and not yet done, waiting the    *)
(* keys of pending delayed adds, failures the rate limiter's count.        *)

Separator == "/"

\* 'namespace/name' keys of the NdbCluster resources
Names == {"a", "b"}
NdbKey(namespace, name) == namespace \o Separator \o name
Keys == {NdbKey("ns", n) : n \in Names}

\* key strings in general: parts joined by the separator
RECURSIVE Join(_)
Join(parts) ==
    IF Len(parts) = 1 THEN parts[1]
    ELSE parts[1] \o Separator \o Join(Tail(parts))

\* a string that is not a 'namespace/name' key
MalformedKey == Join(<<"ns", "a", "b">>)

\* every string the queue is ever given
QueueKeys == Keys \cup {MalformedKey}

\* an item of the queue that is not a string (the queue holds interface{})
NonStringItem == "#item"

\* everything the queue can hold
Items == QueueKeys \cup {NonStringItem}

\* the type assertion item.(string)
IsString(item) == item # NonStringItem

Workers == 1..NumWorkers

\* the informer cache before its first sync: no object of the resource; aliased
\* tells whether a pass holds the cache's object itself rather than a copy,
\* failing whether Get returns an error of its own
NewLister == [obj |-> nil, aliased |-> FALSE, failing |-> FALSE]

\* the test fixture of the secret control: a fake clientset without secrets
\* and without recorded actions, a cluster without custom secret name
newFixture == [secrets |-> {}, actions |-> <<>>, name |-> nil, ret |-> nil]

\* the builders before a cluster is given to them
newBuilt == [nc |-> nil, first |-> nil, second |-> nil]

\* a testRunner{} before run is called: no provider, sigMutex unlocked
\* (sigMutex names the goroutine that locked it, "" when unlocked), no
\* process; sigs is the signal channel and sent counts the signals that
\* arrived; main and handler are the positions of the two goroutines, with
\* the command each runs, what its Wait returned (ret) and what run is going
\* to return (ok)
newTestRunner ==
    [p |-> nil, inCluster |-> FALSE, sigMutex |-> "", process |-> nil,
     passSignals |-> FALSE, sigs |-> <<>>, sent |-> 0,
     main |-> [pc |-> "run", phase |-> "", script |-> <<>>, cmd |-> nil,
               ret |-> TRUE, ok |-> TRUE],
     handler |-> [pc |-> "off", sig |-> nil, cmd |-> nil, ret |-> TRUE]]

NewRateLimitingQueue ==
    [queue |-> <<>>, dirty |-> {}, processing |-> {}, waiting |-> {},
     failures |-> [k \in Items |-> 0], shuttingDown |-> FALSE]

\* a worker in processNextWorkItem: at Get, in syncHandler, or about to run
\* the deferred Done; item is the key it holds and sr the pass's result
Worker(pc, item, sr) == [pc |-> pc, item |-> item, sr |-> sr]

----------------------------------------------------------------------------
(* The admission handlers applied to requests drawn from bounded sets      *)

\* the objects the API server can hold as the old object of an UPDATE:
\* resources that passed admission, with processedGeneration <= generation
OldObjects ==
    { NdbCluster(1, g, 1, DecodeSpec(d), pg) :
        g \in 1..MaxGen, pg \in 0..MaxGen, d \in Docs }

StoredObjects ==
    { o \in OldObjects : HasValidSpec(o) /\ o.Status.ProcessedGeneration <= o.Generation }

\* the object of a CREATE or the new object of an UPDATE, decoded from doc
NewObject(doc) == NdbCluster(0, 0, 0, DecodeSpec(doc), 0)

Request(kind, doc, old) == [kind |-> kind, doc |-> doc, old |-> old]

\* a request arrives: its document, and for an UPDATE the stored old object
AdmRequest ==
    /\ \E d \in Docs, o \in {nil} \cup {Some(x) : x \in StoredObjects} :
            areq = Request("new", d, o)
    /\ patch = <<>>
    /\ resp = requestAllowed

\* the mutating webhook is called with the request document
Mutate ==
    /\ areq.kind = "new"
    /\ areq' = [areq EXCEPT !.kind = "mutate"]
    /\ patch' = mutate(NewObject(areq.doc))
    /\ UNCHANGED <<resp, sysVars, srvVars, ctlVars, cacheVars, toolVars>>

\* the API server applies the returned patch to the request document
ApplyMutation ==
    /\ areq.kind = "mutate"
    /\ patch # <<>>
    /\ PatchAppliesAll(areq.doc, patch)
    /\ areq' = [areq EXCEPT !.kind = "patched", !.doc = ApplyPatch(areq.doc, patch)]
    /\ UNCHANGED <<patch, resp, sysVars, srvVars, ctlVars, cacheVars, toolVars>>

\* mutate runs again on the patched object
MutateAgain ==
    /\ areq.kind = "patched"
    /\ areq' = [areq EXCEPT !.kind = "remutate"]
    /\ patch' = mutate(NewObject(areq.doc))
    /\ UNCHANGED <<resp, sysVars, srvVars, ctlVars, cacheVars, toolVars>>

\* the request document is ready for the validating webhook: never mutated,
\* mutated without a patch, or patched
Mutated ==
    \/ areq.kind \in {"new", "patched", "remutate"}
    \/ areq.kind = "mutate" /\ patch = <<>>

ValidateCreate ==
    /\ Mutated
    /\ IsNil(areq.old)
    /\ areq' = [areq EXCEPT !.kind = "create"]
    /\ resp' = validateCreate(NewObject(areq.doc))
    /\ UNCHANGED <<patch, sysVars, srvVars, ctlVars, cacheVars, toolVars>>

ValidateUpdate ==
    /\ Mutated
    /\ ~IsNil(areq.old)
    /\ areq' = [areq EXCEPT !.kind = "update"]
    /\ resp' = validateUpdate(NewObject(areq.doc), Val(areq.old))
    /\ UNCHANGED <<patch, sysVars, srvVars, ctlVars, cacheVars, toolVars>>

AdmNext ==
    \/ Mutate
    \/ ApplyMutation
    \/ MutateAgain
    \/ ValidateCreate
    \/ ValidateUpdate

SysInit ==
    /\ ndb = nil
    /\ config = nil
    /\ wl = nil
    /\ pass = nil
    /\ storeRV = 0
    /\ review = nil
    /\ reply = nil
    /\ wq = NewRateLimitingQueue
    /\ workers = [w \in Workers |-> Worker("get", nil, nil)]
    /\ adds = [k \in Items |-> 0]
    /\ event = nil
    /\ ndbsLister = NewLister
    /\ restarted = FALSE
    /\ fixture = newFixture
    /\ built = newBuilt
    /\ testRunner = newTestRunner

AdmInit == AdmRequest /\ SysInit

SpecAdmission == AdmInit /\ [][AdmNext]_vars

----------------------------------------------------------------------------
(* Webhook server: an AdmissionReview is decoded, routed by its resource   *)
(* to the admission controller and answered.  Every failure on the way is  *)
(* answered with a denial that carries the error.                          *)

\* getGVR().Resource: the resource the admission controller is bound to
getGVR == "ndbclusters"

\* json.Marshal(v): the encoded bytes, or the encoder's error
jsonMarshal(v, fails) ==
    IF fails THEN [bytes |-> nil, err |-> Some("json: unsupported value")]
    ELSE [bytes |-> Some(v), err |-> nil]

\* mutant: the encoder's error is dropped and no patch is returned
mutatePatch_DropsError(nc, marshalFails) ==
    LET patchOperations == mutate(nc)
        m == jsonMarshal(patchOperations, marshalFails)
    IN  IF patchOperations = <<>> THEN [patch |-> nil, err |-> nil]
        ELSE IF ~IsNil(m.err) THEN [patch |-> nil, err |-> nil]
        ELSE [patch |-> m.bytes, err |-> nil]

\* the (patch, err) pair mutate returns: (nil, nil) without operations,
\* (nil, err) when the operations cannot be encoded, else (patch, nil)
mutatePatch(nc, marshalFails) ==
    LET patchOperations == mutate(nc)
        m == jsonMarshal(patchOperations, marshalFails)
    IN  IF patchOperations = <<>> THEN [patch |-> nil, err |-> nil]
        ELSE IF ~IsNil(m.err) THEN [patch |-> nil, err |-> m.err]
        ELSE [patch |-> m.bytes, err |-> nil]

\* the AdmissionResponse of the server: allowed, status message, patch
Response(allowed, message, p) == [Allowed |-> allowed, Message |-> message, Patch |-> p]

\* an internal error is answered with a denial carrying the error
requestDeniedBad(message) == Response(FALSE, message, nil)

requestAllowedWithPatch(p) == Response(TRUE, "", p)

\* the response of a validate call, in the server's form
Validated(r) == Response(r.Allowed, r.Reason, nil)

\* the AdmissionReview requests that reach the server: the body may not
\* decode, the resource may be one no admission controller is bound to
Reviews ==
    [stage : {"received"}, decodes : BOOLEAN, resource : {getGVR, "pods"},
     path : {"mutate", "validate"}, marshalFails : BOOLEAN,
     doc : Docs, old : {nil} \cup {Some(o) : o \in {x \in StoredObjects : x.Generation = 1}}]

Serving(stage) == ~IsNil(review) /\ Val(review).stage = stage

Answer(response) ==
    /\ reply' = Some(response)
    /\ review' = Some([Val(review) EXCEPT !.stage = "answered"])

\* the request body is decoded into an AdmissionReview
DecodeReview ==
    /\ Serving("received")
    /\ IF ~Val(review).decodes
       THEN Answer(requestDeniedBad("decode error"))
       ELSE /\ review' = Some([Val(review) EXCEPT !.stage = "decoded"])
            /\ UNCHANGED reply
    /\ UNCHANGED <<admVars, sysVars, ctlVars, cacheVars, toolVars>>

\* the request's resource is compared with the admission controller's
CheckResource ==
    /\ Serving("decoded")
    /\ IF Val(review).resource # getGVR
       THEN Answer(requestDeniedBad("unsupported resource"))
       ELSE /\ review' = Some([Val(review) EXCEPT !.stage = "routed"])
            /\ UNCHANGED reply
    /\ UNCHANGED <<admVars, sysVars, ctlVars, cacheVars, toolVars>>

\* the mutating path: the patch of mutate is returned with the allowance
ServeMutate ==
    /\ Serving("routed")
    /\ Val(review).path = "mutate"
    /\ LET r == mutatePatch(NewObject(Val(review).doc), Val(review).marshalFails)
       IN  IF ~IsNil(r.err) THEN Answer(requestDeniedBad(Val(r.err)))
           ELSE Answer(requestAllowedWithPatch(r.patch))
    /\ UNCHANGED <<admVars, sysVars, ctlVars, cacheVars, toolVars>>

\* the validating path: CREATE without an old object, UPDATE with one
ServeValidate ==
    /\ Serving("routed")
    /\ Val(review).path = "validate"
    /\ IF IsNil(Val(review).old)
       THEN Answer(Validated(validateCreate(NewObject(Val(review).doc))))
       ELSE Answer(Validated(validateUpdate(NewObject(Val(review).doc),
                                            Val(Val(review).old))))
    /\ UNCHANGED <<admVars, sysVars, ctlVars, cacheVars, toolVars>>

ServeInit ==
    /\ areq = Request("none", [nodeCount |-> 0, mysqld |-> nil], nil)
    /\ patch = <<>>
    /\ resp = requestAllowed
    /\ ndb = nil
    /\ config = nil
    /\ wl = nil
    /\ pass = nil
    /\ storeRV = 0
    /\ \E r \in Reviews : review = Some(r)
    /\ reply = nil
    /\ wq = NewRateLimitingQueue
    /\ workers = [w \in Workers |-> Worker("get", nil, nil)]
    /\ adds = [k \in Items |-> 0]
    /\ event = nil
    /\ ndbsLister = NewLister
    /\ restarted = FALSE
    /\ fixture = newFixture
    /\ built = newBuilt
    /\ testRunner = newTestRunner

ServeNext ==
    \/ DecodeReview
    \/ CheckResource
    \/ ServeMutate
    \/ ServeValidate

SpecServe == ServeInit /\ [][ServeNext]_vars

----------------------------------------------------------------------------
(* API server: the write path of the NdbCluster resource.  A request is    *)
(* mutated, then validated, then persisted; spec writes bump generation    *)
(* and resourceVersion, status writes bump resourceVersion only.           *)

\* documents users submit to the running system
SysDocs ==
    { [nodeCount |-> 1, mysqld |-> m] :
        m \in {nil} \cup { Some([nodeCount |-> Some(n), maxNodeCount |-> nil]) :
                              n \in {0 - MaxNeg, 0, 1, MaxCount} } }

\* the request document after the mutating webhook's patch
MutatedDoc(doc) == ApplyPatch(doc, mutate(NewObject(doc)))

\* kubectl create: mutate, validateCreate, persist with generation 1
CreateNdb(doc) ==
    /\ IsNil(ndb)
    /\ storeRV < MaxRV
    /\ PatchAppliesAll(doc, mutate(NewObject(doc)))
    /\ patch' = mutate(NewObject(doc))
    /\ areq' = Request("create", MutatedDoc(doc), nil)
    /\ resp' = validateCreate(NewObject(MutatedDoc(doc)))
    /\ IF resp'.Allowed
       THEN /\ storeRV' = storeRV + 1
            /\ ndb' = Some(NdbCluster(storeRV + 1, 1, storeRV + 1,
                                   DecodeSpec(MutatedDoc(doc)), 0))
       ELSE UNCHANGED <<ndb, storeRV>>
    /\ UNCHANGED <<srvVars, ctlVars, config, wl, pass, cacheVars, toolVars>>

\* kubectl apply of a new spec: mutate, validateUpdate against the stored
\* object, persist with generation + 1 when the spec changed
UpdateNdb(doc) ==
    /\ ~IsNil(ndb)
    /\ PatchAppliesAll(doc, mutate(NewObject(doc)))
    /\ patch' = mutate(NewObject(doc))
    /\ areq' = Request("update", MutatedDoc(doc), nil)
    /\ resp' = validateUpdate(NewObject(MutatedDoc(doc)), Val(ndb))
    /\ IF resp'.Allowed /\ DecodeSpec(MutatedDoc(doc)) # Val(ndb).Spec
       THEN /\ Val(ndb).Generation < MaxGen
            /\ storeRV < MaxRV
            /\ storeRV' = storeRV + 1
            /\ ndb' = Some([Val(ndb) EXCEPT !.Generation = @ + 1,
                                            !.ResourceVersion = storeRV + 1,
                                            !.Spec = DecodeSpec(MutatedDoc(doc))])
       ELSE UNCHANGED <<ndb, storeRV>>
    /\ UNCHANGED <<srvVars, ctlVars, config, wl, pass, cacheVars, toolVars>>

\* kubectl delete: the resource goes, and the garbage collector removes
\* everything that carries its owner reference
DeleteNdb ==
    /\ ~IsNil(ndb)
    /\ ndb' = nil
    /\ config' = nil
    /\ wl' = nil
    /\ UNCHANGED <<srvVars, ctlVars, admVars, pass, storeRV, cacheVars, toolVars>>

\* mutant: the status write is applied whatever resourceVersion the copy carries
StatusWriteApplies_Blind(copy) == ~IsNil(ndb)

\* UpdateStatus with optimistic concurrency: a write from a stale copy is
\* rejected with a conflict
StatusWriteApplies(copy) ==
    /\ ~IsNil(ndb)
    /\ Val(ndb).ResourceVersion = copy.ResourceVersion

----------------------------------------------------------------------------
(* Owned workloads, as the platform runs them                              *)

Workload(template, live, ready) ==
    [Template |-> template, Live |-> live, Ready |-> ready]

\* all pods of the workloads report ready
WorkloadReady ==
    /\ ~IsNil(wl)
    /\ ~Val(wl).Ready
    /\ Val(wl).Live = Val(wl).Template
    /\ wl' = Some([Val(wl) EXCEPT !.Ready = TRUE])
    /\ UNCHANGED <<srvVars, ctlVars, admVars, ndb, config, pass, storeRV, cacheVars, toolVars>>

\* the rolling update replaces the pods by pods of the current template
WorkloadRollout ==
    /\ ~IsNil(wl)
    /\ Val(wl).Live # Val(wl).Template
    /\ wl' = Some(Workload(Val(wl).Template, Val(wl).Template, FALSE))
    /\ UNCHANGED <<srvVars, ctlVars, admVars, ndb, config, pass, storeRV, cacheVars, toolVars>>

\* a pod fails: the cluster is degraded
WorkloadDegraded ==
    /\ ~IsNil(wl)
    /\ Val(wl).Ready
    /\ wl' = Some([Val(wl) EXCEPT !.Ready = FALSE])
    /\ UNCHANGED <<srvVars, ctlVars, admVars, ndb, config, pass, storeRV, cacheVars, toolVars>>

\* a workload is deleted out from under the controller
WorkloadDeleted ==
    /\ ~IsNil(wl)
    /\ wl' = nil
    /\ UNCHANGED <<srvVars, ctlVars, admVars, ndb, config, pass, storeRV, cacheVars, toolVars>>

----------------------------------------------------------------------------
(* Sync engine: one reconciliation pass, step by step.  The pass works on *)
(* its own deep copy of the resource; platform events interleave with its *)
(* API calls.                                                              *)

finishProcessing == "finish"
errorWhileProcessing == "error"
requeueInSeconds == "requeue"

Pass(pc, copy, healthy, aligned, result) ==
    [pc |-> pc, ndb |-> copy, healthy |-> healthy, aligned |-> aligned,
     result |-> result]

InPass(pc) == ~IsNil(pass) /\ Val(pass).pc = pc

Copy == Val(Val(pass).ndb)

\* the pass ends with a syncResult
EndPass(result) == Some([Val(pass) EXCEPT !.pc = "done", !.result = result])

\* the pass moves on to its next step
GoTo(pc) == [Val(pass) EXCEPT !.pc = pc]

\* syncHandler, for the well-formed key of the resource: get the resource from
\* the lister; stop if it does not exist any more, else deep-copy it and run
\* sync on the copy
syncHandler ==
    /\ IsNil(pass)
    /\ pass' = IF IsNil(ndb)
               THEN Some(Pass("done", nil, FALSE, FALSE, finishProcessing))
               ELSE Some(Pass("ensure", Some(Val(ndb)), FALSE, FALSE, ""))
    /\ UNCHANGED <<srvVars, ctlVars, admVars, ndb, config, wl, storeRV, cacheVars, toolVars>>

\* the resource the pass works for is still the stored one: what is created
\* with an owner reference to a resource that is gone is garbage-collected
OwnerExists == ~IsNil(ndb) /\ Val(ndb).UID = Copy.UID

\* step 1: create the owned resources that do not exist, leave the others alone
SyncEnsureResources ==
    /\ InPass("ensure")
    /\ config' = IF IsNil(config) /\ OwnerExists
                 THEN Some([Version |-> 1, Generation |-> Copy.Generation])
                 ELSE config
    /\ wl' = IF IsNil(wl) /\ OwnerExists
             THEN Some(Workload(Val(config').Version, Val(config').Version, FALSE))
             ELSE wl
    /\ pass' = Some(GoTo("health"))
    /\ UNCHANGED <<srvVars, ctlVars, admVars, ndb, storeRV, cacheVars, toolVars>>

\* mutant: the pass goes on to the rollout steps on a degraded cluster
SyncHealthGate_Skipped ==
    /\ InPass("health")
    /\ pass' = Some([GoTo("converge") EXCEPT !.healthy = ~IsNil(wl) /\ Val(wl).Ready])
    /\ UNCHANGED <<srvVars, ctlVars, admVars, ndb, config, wl, storeRV, cacheVars, toolVars>>

\* step 2: stop and poll again later unless every owned workload is ready
SyncHealthGate ==
    /\ InPass("health")
    /\ pass' = IF ~IsNil(wl) /\ Val(wl).Ready
               THEN Some([GoTo("converge") EXCEPT !.healthy = TRUE])
               ELSE EndPass(requeueInSeconds)
    /\ UNCHANGED <<srvVars, ctlVars, admVars, ndb, config, wl, storeRV, cacheVars, toolVars>>

\* the live workloads reflect the last written config version
AlignedWithConfig == Val(wl).Live = Val(config).Version

\* mutant: after triggering the rolling update the pass goes on to step 4
SyncConverge_NoWait ==
    /\ InPass("converge")
    /\ IF IsNil(wl) \/ IsNil(config)
       THEN /\ pass' = EndPass(errorWhileProcessing)
            /\ UNCHANGED wl
       ELSE /\ wl' = Some([Val(wl) EXCEPT !.Template = Val(config).Version])
            /\ pass' = Some([GoTo("accept") EXCEPT !.aligned = AlignedWithConfig])
    /\ UNCHANGED <<srvVars, ctlVars, admVars, ndb, config, storeRV, cacheVars, toolVars>>

\* step 3: drive the workloads to the last written config version
SyncConverge ==
    /\ InPass("converge")
    /\ IF IsNil(wl) \/ IsNil(config)
       THEN /\ pass' = EndPass(errorWhileProcessing)
            /\ UNCHANGED wl
       ELSE IF AlignedWithConfig
       THEN /\ pass' = Some([GoTo("accept") EXCEPT !.aligned = TRUE])
            /\ UNCHANGED wl
       ELSE /\ wl' = Some([Val(wl) EXCEPT !.Template = Val(config).Version])
            /\ pass' = EndPass(requeueInSeconds)
    /\ UNCHANGED <<srvVars, ctlVars, admVars, ndb, config, storeRV, cacheVars, toolVars>>

\* mutant: step 4 does not look at the generation the last config version
\* was written for
SyncAcceptChanges_IgnoresMarker ==
    /\ InPass("accept")
    /\ IF IsNil(config)
       THEN /\ pass' = EndPass(errorWhileProcessing)
            /\ UNCHANGED config
       ELSE IF Copy.Generation # Copy.Status.ProcessedGeneration
       THEN /\ config' = Some([Version |-> Val(config).Version + 1,
                               Generation |-> Copy.Generation])
            /\ pass' = EndPass(requeueInSeconds)
       ELSE /\ pass' = Some(GoTo("status"))
            /\ UNCHANGED config
    /\ UNCHANGED <<srvVars, ctlVars, admVars, ndb, wl, storeRV, cacheVars, toolVars>>

\* step 4: accept a new generation: write a new config version from the spec
SyncAcceptChanges ==
    /\ InPass("accept")
    /\ IF IsNil(config)
       THEN /\ pass' = EndPass(errorWhileProcessing)
            /\ UNCHANGED config
       ELSE IF /\ Copy.Generation # Copy.Status.ProcessedGeneration
               /\ Val(config).Generation # Copy.Generation
       THEN /\ config' = Some([Version |-> Val(config).Version + 1,
                               Generation |-> Copy.Generation])
            /\ pass' = EndPass(requeueInSeconds)
       ELSE /\ pass' = Some(GoTo("status"))
            /\ UNCHANGED config
    /\ UNCHANGED <<srvVars, ctlVars, admVars, ndb, wl, storeRV, cacheVars, toolVars>>

\* the pass sets status.processedGeneration on its working object before it
\* sends it: the object of the cache is written only when the pass works on
\* that very object
SetProcessedGeneration(copy) ==
    IF ndbsLister.aliased
    THEN [ndbsLister EXCEPT
            !.obj = Some([Val(@) EXCEPT !.Status.ProcessedGeneration = copy.Generation])]
    ELSE ndbsLister

\* step 5: record the reconciled generation in status.processedGeneration
SyncUpdateStatus ==
    /\ InPass("status")
    /\ IF Copy.Status.ProcessedGeneration = Copy.Generation
       THEN /\ pass' = EndPass(finishProcessing)
            /\ UNCHANGED <<ndb, storeRV, ndbsLister>>
       ELSE IF StatusWriteApplies(Copy)
       THEN /\ storeRV < MaxRV
            /\ storeRV' = storeRV + 1
            /\ ndb' = Some([Val(ndb) EXCEPT
                              !.Status.ProcessedGeneration = Copy.Generation,
                              !.ResourceVersion = storeRV + 1])
            /\ ndbsLister' = SetProcessedGeneration(Copy)
            /\ pass' = EndPass(finishProcessing)
       ELSE /\ pass' = EndPass(errorWhileProcessing)
            /\ ndbsLister' = SetProcessedGeneration(Copy)
            /\ UNCHANGED <<ndb, storeRV>>
    /\ UNCHANGED <<srvVars, ctlVars, admVars, config, wl, restarted, fixture, toolVars>>

\* processNextWorkItem: the pass is over and the worker is free again
PassDone ==
    /\ InPass("done")
    /\ pass' = nil
    /\ UNCHANGED <<srvVars, ctlVars, admVars, ndb, config, wl, storeRV, cacheVars, toolVars>>

----------------------------------------------------------------------------
(* The system: admission-gated writes, platform events and sync passes     *)

Init ==
    /\ areq = Request("none", [nodeCount |-> 0, mysqld |-> nil], nil)
    /\ patch = <<>>
    /\ resp = requestAllowed
    /\ SysInit

Next ==
    \/ \E d \in SysDocs : CreateNdb(d)
    \/ \E d \in SysDocs : UpdateNdb(d)
    \/ DeleteNdb
    \/ WorkloadReady
    \/ WorkloadRollout
    \/ WorkloadDegraded
    \/ WorkloadDeleted
    \/ syncHandler
    \/ SyncEnsureResources
    \/ SyncHealthGate
    \/ SyncConverge
    \/ SyncAcceptChanges
    \/ SyncUpdateStatus
    \/ PassDone

Spec == Init /\ [][Next]_vars

----------------------------------------------------------------------------
(* Work queue operations, as functions of the queue's state                *)

Min(a, b) == IF a <= b THEN a ELSE b

\* Add: dropped after ShutDown and for a key already marked dirty; a key
\* that is being processed is only marked, Done will queue it
Add(q, k) ==
    IF q.shuttingDown \/ k \in q.dirty THEN q
    ELSE IF k \in q.processing THEN [q EXCEPT !.dirty = @ \cup {k}]
    ELSE [q EXCEPT !.dirty = @ \cup {k}, !.queue = Append(@, k)]

\* Get, when the queue holds a key: the head is handed out and marked
Get(q) ==
    [q EXCEPT !.queue = Tail(@),
              !.processing = @ \cup {Head(q.queue)},
              !.dirty = @ \ {Head(q.queue)}]

\* Done: the mark is released; a key added meanwhile is queued
Done(q, k) ==
    IF k \in q.dirty
    THEN [q EXCEPT !.processing = @ \ {k}, !.queue = Append(@, k)]
    ELSE [q EXCEPT !.processing = @ \ {k}]

\* Forget: the rate limiter stops tracking the key
Forget(q, k) == [q EXCEPT !.failures[k] = 0]

\* AddAfter with a positive delay: the key waits for its timer
AddAfter(q, k) ==
    IF q.shuttingDown THEN q ELSE [q EXCEPT !.waiting = @ \cup {k}]

\* AddRateLimited: AddAfter with the rate limiter's next backoff
AddRateLimited(q, k) ==
    AddAfter([q EXCEPT !.failures[k] = Min(@ + 1, MaxFailures)], k)

ShutDown(q) == [q EXCEPT !.shuttingDown = TRUE]

\* the Add calls the queue took for a key since it was last handed out
CountAdd(k) ==
    IF wq.shuttingDown THEN adds ELSE [adds EXCEPT ![k] = Min(@ + 1, MaxAdds)]

----------------------------------------------------------------------------
(* Controller: event handlers add keys, Run's workers process them         *)

\* an event handler adds the key of an NdbCluster resource
Enqueue(k) ==
    /\ wq' = Add(wq, k)
    /\ adds' = CountAdd(k)
    /\ UNCHANGED <<admVars, sysVars, srvVars, workers, event, cacheVars, toolVars>>

\* the delay of an AddAfter or AddRateLimited has passed: the key is added
DelayElapsed(k) ==
    /\ k \in wq.waiting
    /\ wq' = Add([wq EXCEPT !.waiting = @ \ {k}], k)
    /\ adds' = CountAdd(k)
    /\ UNCHANGED <<admVars, sysVars, srvVars, workers, event, cacheVars, toolVars>>

\* mutant: Done is called at once instead of being deferred
GetWorkItem_DoneAtOnce(w) ==
    /\ workers[w].pc = "get"
    /\ wq.queue # <<>>
    /\ wq' = Done(Get(wq), Head(wq.queue))
    /\ adds' = [adds EXCEPT ![Head(wq.queue)] = 0]
    /\ workers' = [workers EXCEPT ![w] = Worker("sync", Some(Head(wq.queue)), nil)]
    /\ UNCHANGED <<admVars, sysVars, srvVars, event, cacheVars, toolVars>>

\* mutant: Get does not return on shutdown: the worker stays blocked in it
GetWorkItem_IgnoresShutdown(w) ==
    /\ workers[w].pc = "get"
    /\ wq.queue # <<>>
    /\ wq' = Get(wq)
    /\ adds' = [adds EXCEPT ![Head(wq.queue)] = 0]
    /\ workers' = [workers EXCEPT ![w] = Worker("sync", Some(Head(wq.queue)), nil)]
    /\ UNCHANGED <<admVars, sysVars, srvVars, event, cacheVars, toolVars>>

\* mutant: the type check comes before the defer of Done
GetWorkItem_ChecksBeforeDefer(w) ==
    /\ workers[w].pc = "get"
    /\ IF wq.queue # <<>>
       THEN /\ wq' = IF IsString(Head(wq.queue)) THEN Get(wq)
                     ELSE Forget(Get(wq), Head(wq.queue))
            /\ adds' = [adds EXCEPT ![Head(wq.queue)] = 0]
            /\ workers' = [workers EXCEPT ![w] =
                   IF IsString(Head(wq.queue))
                   THEN Worker("sync", Some(Head(wq.queue)), nil)
                   ELSE Worker("get", nil, nil)]
       ELSE /\ wq.shuttingDown
            /\ workers' = [workers EXCEPT ![w] = Worker("exit", nil, nil)]
            /\ UNCHANGED <<wq, adds>>
    /\ UNCHANGED <<admVars, sysVars, srvVars, event, cacheVars, toolVars>>

\* processNextWorkItem up to the call of syncHandler: Get blocks until the
\* queue holds an item or is shut down; shutdown ends the worker.  Done is
\* deferred, then an item that is not a string is forgotten and the pass
\* returns without calling syncHandler.
GetWorkItem(w) ==
    /\ workers[w].pc = "get"
    /\ IF wq.queue # <<>>
       THEN /\ wq' = IF IsString(Head(wq.queue)) THEN Get(wq)
                     ELSE Forget(Get(wq), Head(wq.queue))
            /\ adds' = [adds EXCEPT ![Head(wq.queue)] = 0]
            /\ workers' = [workers EXCEPT ![w] =
                   IF IsString(Head(wq.queue))
                   THEN Worker("sync", Some(Head(wq.queue)), nil)
                   ELSE Worker("done", Some(Head(wq.queue)), nil)]
       ELSE /\ wq.shuttingDown
            /\ workers' = [workers EXCEPT ![w] = Worker("exit", nil, nil)]
            /\ UNCHANGED <<wq, adds>>
    /\ UNCHANGED <<admVars, sysVars, srvVars, event, cacheVars, toolVars>>

\* mutant: the error path releases the item itself, ahead of the deferred Done
RunSyncHandler_DoneOnError(w) ==
    /\ workers[w].pc = "sync"
    /\ \E sr \in {finishProcessing, errorWhileProcessing, requeueInSeconds} :
        LET key == Val(workers[w].item)
        IN  /\ wq' = IF sr = errorWhileProcessing THEN Done(AddRateLimited(wq, key), key)
                     ELSE IF sr = requeueInSeconds THEN AddAfter(Forget(wq, key), key)
                     ELSE Forget(wq, key)
            /\ workers' = [workers EXCEPT ![w] = Worker("done", Some(key), Some(sr))]
    /\ UNCHANGED <<admVars, sysVars, srvVars, adds, event, cacheVars, toolVars>>

\* mutant: the rate limiter is cleared before the failed key is re-queued
RunSyncHandler_ForgetsOnError(w) ==
    /\ workers[w].pc = "sync"
    /\ \E sr \in {finishProcessing, errorWhileProcessing, requeueInSeconds} :
        LET key == Val(workers[w].item)
        IN  /\ wq' = IF sr = errorWhileProcessing THEN AddRateLimited(Forget(wq, key), key)
                     ELSE IF sr = requeueInSeconds THEN AddAfter(Forget(wq, key), key)
                     ELSE Forget(wq, key)
            /\ workers' = [workers EXCEPT ![w] = Worker("done", Some(key), Some(sr))]
    /\ UNCHANGED <<admVars, sysVars, srvVars, adds, event, cacheVars, toolVars>>

\* mutant: a pass that asks for a requeue is re-queued with backoff
RunSyncHandler_RequeueRateLimited(w) ==
    /\ workers[w].pc = "sync"
    /\ \E sr \in {finishProcessing, errorWhileProcessing, requeueInSeconds} :
        LET key == Val(workers[w].item)
        IN  /\ wq' = IF sr = errorWhileProcessing THEN AddRateLimited(wq, key)
                     ELSE IF sr = requeueInSeconds THEN AddRateLimited(wq, key)
                     ELSE Forget(wq, key)
            /\ workers' = [workers EXCEPT ![w] = Worker("done", Some(key), Some(sr))]
    /\ UNCHANGED <<admVars, sysVars, srvVars, adds, event, cacheVars, toolVars>>

\* mutant: a failed key is given up
RunSyncHandler_DropsOnError(w) ==
    /\ workers[w].pc = "sync"
    /\ \E sr \in {finishProcessing, errorWhileProcessing, requeueInSeconds} :
        LET key == Val(workers[w].item)
        IN  /\ wq' = IF sr = errorWhileProcessing THEN wq
                     ELSE IF sr = requeueInSeconds THEN AddAfter(Forget(wq, key), key)
                     ELSE Forget(wq, key)
            /\ workers' = [workers EXCEPT ![w] = Worker("done", Some(key), Some(sr))]
    /\ UNCHANGED <<admVars, sysVars, srvVars, adds, event, cacheVars, toolVars>>

\* syncHandler returns: an error is retried with backoff; success clears
\* the rate limiter and a requeue result is added after its interval
RunSyncHandler(w) ==
    /\ workers[w].pc = "sync"
    /\ \E sr \in {finishProcessing, errorWhileProcessing, requeueInSeconds} :
        LET key == Val(workers[w].item)
        IN  /\ wq' = IF sr = errorWhileProcessing THEN AddRateLimited(wq, key)
                     ELSE IF sr = requeueInSeconds THEN AddAfter(Forget(wq, key), key)
                     ELSE Forget(wq, key)
            /\ workers' = [workers EXCEPT ![w] = Worker("done", Some(key), Some(sr))]
    /\ UNCHANGED <<admVars, sysVars, srvVars, adds, event, cacheVars, toolVars>>

\* the deferred Done runs and the worker loops
DoneWorkItem(w) ==
    /\ workers[w].pc = "done"
    /\ wq' = Done(wq, Val(workers[w].item))
    /\ workers' = [workers EXCEPT ![w] = Worker("get", nil, nil)]
    /\ UNCHANGED <<admVars, sysVars, srvVars, adds, event, cacheVars, toolVars>>

\* Run returns after stopCh is closed: the deferred ShutDown
RunReturns ==
    /\ ~wq.shuttingDown
    /\ wq' = ShutDown(wq)
    /\ UNCHANGED <<admVars, sysVars, srvVars, workers, adds, event, cacheVars, toolVars>>

QueueNext ==
    \/ \E k \in Keys : Enqueue(k)
    \/ \E k \in Keys : DelayElapsed(k)
    \/ \E w \in Workers : GetWorkItem(w)
    \/ \E w \in Workers : RunSyncHandler(w)
    \/ \E w \in Workers : DoneWorkItem(w)
    \/ RunReturns

SpecQueue == Init /\ [][QueueNext]_vars

\* the queue given items of any type: the key of one resource and an item
\* that is not a string
ItemsNext ==
    \/ \E i \in {CHOOSE k \in Keys : TRUE, NonStringItem} : Enqueue(i)
    \/ \E k \in Keys : DelayElapsed(k)
    \/ \E w \in Workers : GetWorkItem(w)
    \/ \E w \in Workers : RunSyncHandler(w)
    \/ \E w \in Workers : DoneWorkItem(w)
    \/ RunReturns

SpecItems == Init /\ [][ItemsNext]_vars

\* the scheduling of the goroutines: a worker that can take a step takes it,
\* a delay that has passed is noticed; events and the stop signal are free
QueueFairness ==
    /\ \A k \in Keys : WF_vars(DelayElapsed(k))
    /\ \A w \in Workers : WF_vars(GetWorkItem(w))
    /\ \A w \in Workers : WF_vars(RunSyncHandler(w))
    /\ \A w \in Workers : WF_vars(DoneWorkItem(w))

SpecQueueFair == Init /\ [][QueueNext]_vars /\ QueueFairness

----------------------------------------------------------------------------
(* Event router: the handlers NewController registers with the informers   *)
(* of the NdbCluster resource, the Deployments and the StatefulSets.  A    *)
(* handler is the sequence of keys it passes to workqueue.Add.             *)

\* the fields of an NdbCluster the handlers read
NdbObject(name, gen, resVer, pgen) ==
    [Namespace |-> "ns", Name |-> name, Generation |-> gen, ResourceVersion |-> resVer,
     Status |-> [ProcessedGeneration |-> pgen]]

getNdbClusterKey(obj) == NdbKey(obj.Namespace, obj.Name)

\* the fields of a Deployment or StatefulSet the handlers read: the value of
\* the cluster label, <<>> without the label, and the rollout's completion
WorkloadObject(kind, label, complete) ==
    [Kind |-> kind, Namespace |-> "ns", Labels |-> label, Complete |-> complete]

deploymentComplete(deployment) == deployment.Complete
statefulsetReady(statefulset) == statefulset.Complete

\* mutant: a resource that needs no reconciliation is not queued
NdbAddFunc_SkipsProcessed(obj) ==
    IF obj.Generation = obj.Status.ProcessedGeneration THEN <<>>
    ELSE <<getNdbClusterKey(obj)>>

NdbAddFunc(obj) == <<getNdbClusterKey(obj)>>

\* mutant: a status update falls through to the Add
NdbUpdateFunc_NoReturn(oldNdb, newNdb) ==
    LET ndbKey == getNdbClusterKey(oldNdb)
    IN  IF oldNdb.Generation # newNdb.Generation THEN <<ndbKey>>
        ELSE IF oldNdb.ResourceVersion # newNdb.ResourceVersion THEN <<ndbKey>>
        ELSE IF oldNdb.Generation # oldNdb.Status.ProcessedGeneration THEN <<>>
        ELSE <<ndbKey>>

\* mutant: the check for a reconciliation under way comes first
NdbUpdateFunc_UnderwayFirst(oldNdb, newNdb) ==
    LET ndbKey == getNdbClusterKey(oldNdb)
    IN  IF oldNdb.Generation # oldNdb.Status.ProcessedGeneration THEN <<>>
        ELSE IF oldNdb.Generation # newNdb.Generation THEN <<ndbKey>>
        ELSE IF oldNdb.ResourceVersion # newNdb.ResourceVersion THEN <<>>
        ELSE <<ndbKey>>

\* mutant: a resync queues the resource while its reconciliation is under way
NdbUpdateFunc_ResyncInverted(oldNdb, newNdb) ==
    LET ndbKey == getNdbClusterKey(oldNdb)
    IN  IF oldNdb.Generation # newNdb.Generation THEN <<ndbKey>>
        ELSE IF oldNdb.ResourceVersion # newNdb.ResourceVersion THEN <<>>
        ELSE IF oldNdb.Generation = oldNdb.Status.ProcessedGeneration THEN <<>>
        ELSE <<ndbKey>>

NdbUpdateFunc(oldNdb, newNdb) ==
    LET ndbKey == getNdbClusterKey(oldNdb)
    IN  IF oldNdb.Generation # newNdb.Generation THEN <<ndbKey>>
        ELSE IF oldNdb.ResourceVersion # newNdb.ResourceVersion THEN <<>>
        ELSE IF oldNdb.Generation # oldNdb.Status.ProcessedGeneration THEN <<>>
        ELSE <<ndbKey>>

\* mutant: the deleted resource is queued for a last pass
NdbDeleteFunc_Enqueues(obj) == <<getNdbClusterKey(obj)>>

NdbDeleteFunc(obj) == <<>>

\* mutant: the workload informers hand every workload to the handlers
FilterFunc_AcceptsAll(obj) == TRUE

\* FilterFunc of both workload informers: the cluster label exists
FilterFunc(obj) == ~IsNil(obj.Labels)

\* mutant: the key is the label value alone
extractAndEnqueueNdbCluster_NoNamespace(obj) ==
    <<IF IsNil(obj.Labels) THEN "" ELSE Val(obj.Labels)>>

\* the key is the workload's namespace and the value of its cluster label,
\* which reads as the empty string when the label is missing
extractAndEnqueueNdbCluster(obj) ==
    LET ndbClusterName == IF IsNil(obj.Labels) THEN "" ELSE Val(obj.Labels)
    IN  <<NdbKey(obj.Namespace, ndbClusterName)>>

\* mutant: only the transition into the complete state queues the owner
DeploymentUpdateFunc_EdgeTriggered(oldObj, newObj) ==
    IF deploymentComplete(newObj) /\ ~deploymentComplete(oldObj)
    THEN extractAndEnqueueNdbCluster(newObj)
    ELSE <<>>

DeploymentUpdateFunc(oldObj, newObj) ==
    IF deploymentComplete(newObj) THEN extractAndEnqueueNdbCluster(newObj)
    ELSE <<>>

DeploymentDeleteFunc(obj) == extractAndEnqueueNdbCluster(obj)

StatefulSetUpdateFunc(oldObj, newObj) ==
    IF statefulsetReady(newObj) THEN extractAndEnqueueNdbCluster(newObj)
    ELSE <<>>

\* the NdbCluster objects an informer hands to the handlers
NdbObjects ==
    { NdbObject(n, g, r, pg) : n \in Names, g \in 1..MaxGen, r \in 1..MaxRV, pg \in 0..MaxGen }

\* (old, new) of an update notification: one resource; a write moves the
\* resourceVersion, a spec write also the generation; a resync repeats the
\* cached object
NdbUpdates ==
    { u \in NdbObjects \X NdbObjects :
        /\ u[1].Name = u[2].Name
        /\ u[1].Status.ProcessedGeneration <= u[1].Generation
        /\ u[2].Status.ProcessedGeneration <= u[2].Generation
        /\ u[1].Generation <= u[2].Generation
        /\ u[1].ResourceVersion <= u[2].ResourceVersion
        /\ u[1].Status.ProcessedGeneration <= u[2].Status.ProcessedGeneration
        /\ u[1].ResourceVersion = u[2].ResourceVersion => u[1] = u[2] }

\* the namespaces workloads live in
Namespaces == {"ns", "dev"}

WorkloadObjects ==
    { [WorkloadObject(kind, l, c) EXCEPT !.Namespace = n] :
        kind \in {"Deployment", "StatefulSet"},
        l \in {nil} \cup {Some(x) : x \in Names}, c \in BOOLEAN, n \in Namespaces }

WorkloadUpdates ==
    { u \in WorkloadObjects \X WorkloadObjects :
        /\ u[1].Kind = u[2].Kind
        /\ u[1].Namespace = u[2].Namespace
        /\ u[1].Labels = u[2].Labels }

Notification(stream, type, old, new) ==
    [stream |-> stream, type |-> type, old |-> old, new |-> new,
     handled |-> FALSE, added |-> <<>>]

\* add carries the new object, delete the last known object, update both
Notifications ==
    { Notification("NdbCluster", "add", nil, Some(o)) :
        o \in {x \in NdbObjects : x.Status.ProcessedGeneration <= x.Generation} }
    \cup { Notification("NdbCluster", "delete", Some(o), nil) :
        o \in {x \in NdbObjects : x.Status.ProcessedGeneration <= x.Generation} }
    \cup { Notification("NdbCluster", "update", Some(u[1]), Some(u[2])) : u \in NdbUpdates }
    \cup { Notification(o.Kind, "add", nil, Some(o)) : o \in WorkloadObjects }
    \cup { Notification(o.Kind, "delete", Some(o), nil) : o \in WorkloadObjects }
    \cup { Notification(u[1].Kind, "update", Some(u[1]), Some(u[2])) : u \in WorkloadUpdates }

\* the controller a notification meets: nothing queued, a key pending, or a
\* key held by a worker
ControllerStates ==
    { [wq |-> NewRateLimitingQueue,
       workers |-> [w \in Workers |-> Worker("get", nil, nil)],
       adds |-> [k \in Items |-> 0]] }
    \cup { [wq |-> Add(NewRateLimitingQueue, k),
            workers |-> [w \in Workers |-> Worker("get", nil, nil)],
            adds |-> [x \in Items |-> IF x = k THEN 1 ELSE 0]] : k \in Keys }
    \cup { [wq |-> Get(Add(NewRateLimitingQueue, k)),
            workers |-> [w \in Workers |->
                           IF w = 1 THEN Worker("sync", Some(k), nil)
                           ELSE Worker("get", nil, nil)],
            adds |-> [x \in Items |-> 0]] : k \in Keys }

Pending(stream, type) ==
    /\ ~IsNil(event)
    /\ ~Val(event).handled
    /\ Val(event).stream = stream
    /\ Val(event).type = type

\* the handler returns: the keys it passed to workqueue.Add are queued
Deliver(keys) ==
    /\ wq' = IF keys = <<>> THEN wq ELSE Add(wq, keys[1])
    /\ adds' = IF keys = <<>> THEN adds ELSE CountAdd(keys[1])
    /\ event' = Some([Val(event) EXCEPT !.handled = TRUE, !.added = keys])
    /\ UNCHANGED <<admVars, sysVars, srvVars, workers, cacheVars, toolVars>>

OnNdbAdd ==
    /\ Pending("NdbCluster", "add")
    /\ Deliver(NdbAddFunc(Val(Val(event).new)))

OnNdbUpdate ==
    /\ Pending("NdbCluster", "update")
    /\ Deliver(NdbUpdateFunc(Val(Val(event).old), Val(Val(event).new)))

OnNdbDelete ==
    /\ Pending("NdbCluster", "delete")
    /\ Deliver(NdbDeleteFunc(Val(Val(event).old)))

OnDeploymentUpdate ==
    /\ Pending("Deployment", "update")
    /\ Deliver(IF FilterFunc(Val(Val(event).new))
               THEN DeploymentUpdateFunc(Val(Val(event).old), Val(Val(event).new))
               ELSE <<>>)

OnDeploymentDelete ==
    /\ Pending("Deployment", "delete")
    /\ Deliver(IF FilterFunc(Val(Val(event).old))
               THEN DeploymentDeleteFunc(Val(Val(event).old))
               ELSE <<>>)

OnStatefulSetUpdate ==
    /\ Pending("StatefulSet", "update")
    /\ Deliver(IF FilterFunc(Val(Val(event).new))
               THEN StatefulSetUpdateFunc(Val(Val(event).old), Val(Val(event).new))
               ELSE <<>>)

\* the notifications no function is registered for: the add of a workload
\* and the delete of a StatefulSet
OnUnregistered ==
    /\ \/ Pending("Deployment", "add")
       \/ Pending("StatefulSet", "add")
       \/ Pending("StatefulSet", "delete")
    /\ Deliver(<<>>)

EventsInit ==
    /\ areq = Request("none", [nodeCount |-> 0, mysqld |-> nil], nil)
    /\ patch = <<>>
    /\ resp = requestAllowed
    /\ ndb = nil
    /\ config = nil
    /\ wl = nil
    /\ pass = nil
    /\ storeRV = 0
    /\ review = nil
    /\ reply = nil
    /\ \E c \in ControllerStates :
        /\ wq = c.wq
        /\ workers = c.workers
        /\ adds = c.adds
    /\ \E n \in Notifications : event = Some(n)
    /\ ndbsLister = NewLister
    /\ restarted = FALSE
    /\ fixture = newFixture
    /\ built = newBuilt
    /\ testRunner = newTestRunner

EventsNext ==
    \/ OnNdbAdd
    \/ OnNdbUpdate
    \/ OnNdbDelete
    \/ OnDeploymentUpdate
    \/ OnDeploymentDelete
    \/ OnStatefulSetUpdate
    \/ OnUnregistered

SpecEvents == EventsInit /\ [][EventsNext]_vars

----------------------------------------------------------------------------
(* The controller as a whole: the informers fill the cache and feed the    *)
(* work queue, the workers run syncHandler on the keys, and a pass runs    *)
(* the sync steps on its copy of the cached object.                        *)

\* the name of the NdbCluster resource of the API server section
NdbName == "a"

\* the parts a key string may be made of
KeyParts == UNION { [1..n -> {"ns"} \cup Names] : n \in 1..3 }

\* cache.SplitMetaNamespaceKey: one part is a name, two parts are a
\* namespace and a name, anything else is an error
SplitMetaNamespaceKey(key) ==
    LET parts == CHOOSE p \in KeyParts : Join(p) = key
    IN  IF Len(parts) = 1
        THEN [namespace |-> "", name |-> parts[1], err |-> FALSE]
        ELSE IF Len(parts) = 2
        THEN [namespace |-> parts[1], name |-> parts[2], err |-> FALSE]
        ELSE [namespace |-> "", name |-> "", err |-> TRUE]

NotFound == "NotFound"

\* ndbsLister.NdbClusters(namespace).Get(name): the cached object, NotFound
\* when the cache holds no object of that name, or some other error
ListerGet(namespace, name) ==
    IF ndbsLister.failing THEN [err |-> "InternalError", obj |-> nil]
    ELSE IF namespace = "ns" /\ name = NdbName /\ ~IsNil(ndbsLister.obj)
    THEN [err |-> "", obj |-> ndbsLister.obj]
    ELSE [err |-> NotFound, obj |-> nil]

\* mutant: a resource that is gone is retried like any other lister error
Lookup_RetriesNotFound(key) ==
    LET k == SplitMetaNamespaceKey(key)
    IN  IF k.err THEN Some(finishProcessing)
        ELSE IF ListerGet(k.namespace, k.name).err # "" THEN Some(errorWhileProcessing)
        ELSE nil

\* syncHandler up to the deep copy: the syncResult it returns at once, <<>>
\* when it goes on to sync
Lookup(key) ==
    LET k == SplitMetaNamespaceKey(key)
    IN  IF k.err THEN Some(finishProcessing)
        ELSE IF ListerGet(k.namespace, k.name).err = NotFound THEN Some(finishProcessing)
        ELSE IF ListerGet(k.namespace, k.name).err # "" THEN Some(errorWhileProcessing)
        ELSE nil

\* mutant: the pass works on the object of the cache
DeepCopy_Shallow(o) == [obj |-> o, aliased |-> TRUE]

\* DeepCopy: an object of the same value that shares nothing with o
DeepCopy(o) == [obj |-> o, aliased |-> FALSE]

\* mutant: a pass that asks for a requeue is not added again
Requeue_NoAddAfter(q, key, sr) ==
    IF sr = errorWhileProcessing THEN AddRateLimited(q, key)
    ELSE Forget(q, key)

\* processNextWorkItem after syncHandler returned sr
Requeue(q, key, sr) ==
    IF sr = errorWhileProcessing THEN AddRateLimited(q, key)
    ELSE IF sr = requeueInSeconds THEN AddAfter(Forget(q, key), key)
    ELSE Forget(q, key)

\* the cached NdbCluster as the handlers see it
AsNdbObject(nc) ==
    NdbObject(NdbName, nc.Generation, nc.ResourceVersion, nc.Status.ProcessedGeneration)

\* the handler the NdbCluster informer calls when the cached object old is
\* replaced by new
Notify(old, new) ==
    IF IsNil(new) THEN NdbDeleteFunc(AsNdbObject(Val(old)))
    ELSE IF IsNil(old) \/ Val(old).UID # Val(new).UID THEN NdbAddFunc(AsNdbObject(Val(new)))
    ELSE NdbUpdateFunc(AsNdbObject(Val(old)), AsNdbObject(Val(new)))

\* the NdbCluster informer catches up with the API server: the cache holds
\* a new object and the handler runs
NdbInformer ==
    /\ ndbsLister.obj # ndb
    /\ ndbsLister' = [ndbsLister EXCEPT !.obj = ndb, !.aliased = FALSE]
    /\ LET keys == Notify(ndbsLister.obj, ndb)
       IN  /\ wq' = IF keys = <<>> THEN wq ELSE Add(wq, keys[1])
           /\ adds' = IF keys = <<>> THEN adds ELSE CountAdd(keys[1])
    /\ UNCHANGED <<admVars, sysVars, srvVars, workers, event, restarted, fixture, toolVars>>

\* the StatefulSet informer reports an update of the owned workload (its
\* status changes with every pod event)
StatefulSetInformer ==
    /\ ~IsNil(wl)
    /\ LET sfset == WorkloadObject("StatefulSet", Some(NdbName), Val(wl).Ready)
           keys == IF FilterFunc(sfset) THEN StatefulSetUpdateFunc(sfset, sfset) ELSE <<>>
       IN  /\ keys # <<>>
           /\ wq' = Add(wq, keys[1])
           /\ adds' = CountAdd(keys[1])
    /\ UNCHANGED <<admVars, sysVars, srvVars, workers, event, cacheVars, toolVars>>

\* syncHandler is called: it returns at once, or takes its copy of the cached
\* object and enters sync
WorkerSyncHandler(w) ==
    /\ workers[w].pc = "sync"
    /\ LET key == Val(workers[w].item)
           sr == Lookup(key)
           got == ListerGet(SplitMetaNamespaceKey(key).namespace,
                            SplitMetaNamespaceKey(key).name)
       IN  IF ~IsNil(sr)
           THEN /\ wq' = Requeue(wq, key, Val(sr))
                /\ workers' = [workers EXCEPT ![w] = Worker("done", Some(key), sr)]
                /\ UNCHANGED <<pass, ndbsLister>>
           ELSE /\ IsNil(pass)
                /\ pass' = Some(Pass("ensure", Some(Val(DeepCopy(got.obj).obj)),
                                     FALSE, FALSE, ""))
                /\ ndbsLister' = [ndbsLister EXCEPT !.aliased = DeepCopy(got.obj).aliased]
                /\ workers' = [workers EXCEPT ![w] = Worker("pass", Some(key), nil)]
                /\ UNCHANGED wq
    /\ UNCHANGED <<admVars, srvVars, ndb, config, wl, storeRV, adds, event, restarted, fixture, toolVars>>

\* sync returns: the SyncContext and its copy are dropped and the result
\* decides about the key
WorkerSyncReturns(w) ==
    /\ workers[w].pc = "pass"
    /\ InPass("done")
    /\ wq' = Requeue(wq, Val(workers[w].item), Val(pass).result)
    /\ workers' = [workers EXCEPT ![w] =
                      Worker("done", workers[w].item, Some(Val(pass).result))]
    /\ pass' = nil
    /\ ndbsLister' = [ndbsLister EXCEPT !.aliased = FALSE]
    /\ UNCHANGED <<admVars, srvVars, ndb, config, wl, storeRV, adds, event, restarted, fixture, toolVars>>

\* the controller process dies and a new one starts: queue, workers, passes
\* and cache are gone; Run syncs the caches, the add handler queues the
\* resource that exists, and the workers start
ControllerRestart ==
    /\ ~restarted
    /\ restarted' = TRUE
    /\ pass' = nil
    /\ workers' = [w \in Workers |-> Worker("get", nil, nil)]
    /\ ndbsLister' = [NewLister EXCEPT !.obj = ndb]
    /\ LET keys == IF IsNil(ndb) THEN <<>> ELSE NdbAddFunc(AsNdbObject(Val(ndb)))
       IN  /\ wq' = IF keys = <<>> THEN NewRateLimitingQueue
                    ELSE Add(NewRateLimitingQueue, keys[1])
           /\ adds' = [k \in Items |-> IF keys # <<>> /\ k = keys[1] THEN 1 ELSE 0]
    /\ UNCHANGED <<admVars, srvVars, ndb, config, wl, storeRV, event, fixture, toolVars>>

\* the documents users submit to the controlled system
ControllerDocs ==
    { [nodeCount |-> 1, mysqld |-> Some([nodeCount |-> Some(n), maxNodeCount |-> nil])] :
        n \in {1, MaxCount} }

ControllerNext ==
    \/ \E d \in ControllerDocs : CreateNdb(d)
    \/ \E d \in ControllerDocs : UpdateNdb(d)
    \/ WorkloadReady
    \/ WorkloadRollout
    \/ NdbInformer
    \/ StatefulSetInformer
    \/ \E k \in Keys : DelayElapsed(k)
    \/ \E w \in Workers : GetWorkItem(w)
    \/ \E w \in Workers : WorkerSyncHandler(w)
    \/ SyncEnsureResources
    \/ SyncHealthGate
    \/ SyncConverge
    \/ SyncAcceptChanges
    \/ SyncUpdateStatus
    \/ \E w \in Workers : WorkerSyncReturns(w)
    \/ \E w \in Workers : DoneWorkItem(w)
    \/ ControllerRestart

SpecController == Init /\ [][ControllerNext]_vars

\* the controller left alone with one created resource: no spec update, no
\* restart, and workloads that stay ready once they are
ConvergeNext ==
    \/ \E d \in ControllerDocs : CreateNdb(d)
    \/ WorkloadReady
    \/ NdbInformer
    \/ StatefulSetInformer
    \/ \E k \in Keys : DelayElapsed(k)
    \/ \E w \in Workers : GetWorkItem(w)
    \/ \E w \in Workers : WorkerSyncHandler(w)
    \/ SyncEnsureResources
    \/ SyncHealthGate
    \/ SyncConverge
    \/ SyncAcceptChanges
    \/ SyncUpdateStatus
    \/ \E w \in Workers : WorkerSyncReturns(w)
    \/ \E w \in Workers : DoneWorkItem(w)

\* the goroutines of the controller keep running: the informer delivers what
\* the API server stored, timers fire, workers and their passes take their
\* next step; what users and pods do is free
ControllerFairness ==
    /\ WF_vars(NdbInformer)
    /\ \A k \in Keys : WF_vars(DelayElapsed(k))
    /\ \A w \in Workers : WF_vars(GetWorkItem(w))
    /\ \A w \in Workers : WF_vars(WorkerSyncHandler(w))
    /\ WF_vars(SyncEnsureResources)
    /\ WF_vars(SyncHealthGate)
    /\ WF_vars(SyncConverge)
    /\ WF_vars(SyncAcceptChanges)
    /\ WF_vars(SyncUpdateStatus)
    /\ \A w \in Workers : WF_vars(WorkerSyncReturns(w))
    /\ \A w \in Workers : WF_vars(DoneWorkItem(w))

SpecConverge == Init /\ [][ConvergeNext]_vars /\ ControllerFairness

\* the lister starts or stops returning an error of its own
ListerFault ==
    /\ ndbsLister' = [ndbsLister EXCEPT !.failing = ~@]
    /\ UNCHANGED <<admVars, sysVars, srvVars, ctlVars, restarted, fixture, toolVars>>

\* syncHandler about to be called: a worker holds a key of a resource that
\* exists, one of a resource that is gone or never was, or a string that is
\* no key; the created resource may be stored and may be cached
LookupInit ==
    /\ areq = Request("none", [nodeCount |-> 0, mysqld |-> nil], nil)
    /\ patch = <<>>
    /\ resp = requestAllowed
    /\ config = nil
    /\ wl = nil
    /\ pass = nil
    /\ review = nil
    /\ reply = nil
    /\ adds = [k \in Items |-> 0]
    /\ event = nil
    /\ restarted = FALSE
    /\ fixture = newFixture
    /\ built = newBuilt
    /\ testRunner = newTestRunner
    /\ \E d \in ControllerDocs, stored \in BOOLEAN, cached \in BOOLEAN :
        LET created == Some(NdbCluster(1, 1, 1, DecodeSpec(MutatedDoc(d)), 0))
        IN  /\ ndb = IF stored THEN created ELSE nil
            /\ storeRV = IF stored \/ cached THEN 1 ELSE 0
            /\ \E failing \in BOOLEAN :
                ndbsLister = [obj |-> IF cached THEN created ELSE nil,
                              aliased |-> FALSE, failing |-> failing]
    /\ \E k \in QueueKeys :
        /\ wq = Get(Add(NewRateLimitingQueue, k))
        /\ workers = [w \in Workers |->
                         IF w = 1 THEN Worker("sync", Some(k), nil)
                         ELSE Worker("get", nil, nil)]

LookupNext ==
    \/ NdbInformer
    \/ ListerFault
    \/ \E k \in Keys : DelayElapsed(k)
    \/ \E w \in Workers : GetWorkItem(w)
    \/ \E w \in Workers : WorkerSyncHandler(w)
    \/ SyncEnsureResources
    \/ SyncHealthGate
    \/ \E w \in Workers : WorkerSyncReturns(w)
    \/ \E w \in Workers : DoneWorkItem(w)

SpecLookup == LookupInit /\ [][LookupNext]_vars

----------------------------------------------------------------------------
(* MySQL root password secret: EnsureSecret against the fake clientset of  *)
(* the controllers' test fixture, which records every write action.        *)

\* the longest list of recorded actions
MaxActions == 5

\* the secret of a cluster that names none, and the name the test gives
DefaultSecretName == "test-mysqld-root-password"
customSecretName == "custom-mysqld-root-password"

SecretNames == {DefaultSecretName, customSecretName}

\* resources.GetMySQLRootPasswordSecretName: the name of the secret and
\* whether the cluster's spec names it
GetMySQLRootPasswordSecretName(name) ==
    IF IsNil(name) THEN [secretName |-> DefaultSecretName, customSecret |-> FALSE]
    ELSE [secretName |-> Val(name), customSecret |-> TRUE]

\* a write action the fake clientset records
Action(verb, name) == [verb |-> verb, resource |-> "secrets", name |-> name]

\* what a call returns: secret, err
Returned(secret, err) == [secret |-> secret, err |-> err]

\* mutant: a missing secret is created whether or not the spec names it
EnsureSecret_CreatesCustom(f) ==
    LET n == GetMySQLRootPasswordSecretName(f.name)
    IN  IF n.secretName \in f.secrets
        THEN [f EXCEPT !.ret = Some(Returned(Some(n.secretName), ""))]
        ELSE [f EXCEPT !.secrets = @ \cup {n.secretName},
                       !.actions = Append(@, Action("create", n.secretName)),
                       !.ret = Some(Returned(Some(n.secretName), ""))]

\* mutant: the created secret is not handed back
EnsureSecret_ReturnsNil(f) ==
    LET n == GetMySQLRootPasswordSecretName(f.name)
    IN  IF n.secretName \in f.secrets
        THEN [f EXCEPT !.ret = Some(Returned(Some(n.secretName), ""))]
        ELSE IF n.customSecret
        THEN [f EXCEPT !.ret = Some(Returned(nil, NotFound))]
        ELSE [f EXCEPT !.secrets = @ \cup {n.secretName},
                       !.actions = Append(@, Action("create", n.secretName)),
                       !.ret = Some(Returned(nil, ""))]

\* EnsureSecret: the secret if it exists; NotFound if the spec names a
\* secret that does not; else a new default secret is created and returned
EnsureSecret(f) ==
    LET n == GetMySQLRootPasswordSecretName(f.name)
    IN  IF n.secretName \in f.secrets
        THEN [f EXCEPT !.ret = Some(Returned(Some(n.secretName), ""))]
        ELSE IF n.customSecret
        THEN [f EXCEPT !.ret = Some(Returned(nil, NotFound))]
        ELSE [f EXCEPT !.secrets = @ \cup {n.secretName},
                       !.actions = Append(@, Action("create", n.secretName)),
                       !.ret = Some(Returned(Some(n.secretName), ""))]

\* the test calls sci.EnsureSecret
CallEnsureSecret ==
    /\ IsNil(fixture.ret)
    /\ Len(fixture.actions) < MaxActions
    /\ fixture' = EnsureSecret(fixture)
    /\ UNCHANGED <<admVars, sysVars, srvVars, ctlVars, ndbsLister, restarted, toolVars>>

\* the test checks secret and err
CheckReturned ==
    /\ ~IsNil(fixture.ret)
    /\ fixture' = [fixture EXCEPT !.ret = nil]
    /\ UNCHANGED <<admVars, sysVars, srvVars, ctlVars, ndbsLister, restarted, toolVars>>

\* the test sets or clears ndb.Spec.Mysqld.RootPasswordSecretName
SetRootPasswordSecretName(name) ==
    /\ IsNil(fixture.ret)
    /\ fixture.name # name
    /\ fixture' = [fixture EXCEPT !.name = name]
    /\ UNCHANGED <<admVars, sysVars, srvVars, ctlVars, ndbsLister, restarted, toolVars>>

\* the test creates a secret through the clientset
CreateSecret(name) ==
    /\ IsNil(fixture.ret)
    /\ name \notin fixture.secrets
    /\ Len(fixture.actions) < MaxActions
    /\ fixture' = [fixture EXCEPT !.secrets = @ \cup {name},
                                  !.actions = Append(@, Action("create", name))]
    /\ UNCHANGED <<admVars, sysVars, srvVars, ctlVars, ndbsLister, restarted, toolVars>>

\* a secret is deleted through the clientset
DeleteSecret(name) ==
    /\ IsNil(fixture.ret)
    /\ name \in fixture.secrets
    /\ Len(fixture.actions) < MaxActions
    /\ fixture' = [fixture EXCEPT !.secrets = @ \ {name},
                                  !.actions = Append(@, Action("delete", name))]
    /\ UNCHANGED <<admVars, sysVars, srvVars, ctlVars, ndbsLister, restarted, toolVars>>

SecretNext ==
    \/ CallEnsureSecret
    \/ CheckReturned
    \/ \E name \in {nil, Some(customSecretName)} : SetRootPasswordSecretName(name)
    \/ \E name \in SecretNames : CreateSecret(name)
    \/ \E name \in SecretNames : DeleteSecret(name)

SpecSecret == Init /\ [][SecretNext]_vars

----------------------------------------------------------------------------
(* The builder of the MySQL Server StatefulSet.  The builders are pure     *)
(* functions of the cluster and the config summary; built keeps the        *)
(* cluster and two StatefulSets built for it.                              *)

\* largest version of the MySQL Server config (my.cnf)
MaxVersion == 3

\* annotation keys
LastAppliedMySQLServerConfigVersion == "mysql.oracle.com/last-applied-my-cnf-config-version"
RootPasswordSecret == "mysql.oracle.com/root-password-secret"

\* strconv.FormatInt(n, 10)
RECURSIVE FormatInt(_)
FormatInt(n) ==
    IF n < 0 THEN "-" \o FormatInt(0 - n)
    ELSE IF n < 10 THEN <<"0", "1", "2", "3", "4", "5", "6", "7", "8", "9">>[n + 1]
    ELSE FormatInt(n \div 10) \o FormatInt(n % 10)

\* m[k] = v of a Go map
SetKey(m, k, v) == [x \in DOMAIN m \cup {k} |-> IF x = k THEN v ELSE m[x]]

\* the NdbCluster "test" as the builders read it: a MySQL Server section with
\* node count, my.cnf, root password secret name and pod spec
BuildCluster(nodeCount, myCnf, secretName, podSpec) ==
    [Name |-> "test", Namespace |-> "ns",
     Spec |-> [Mysqld |-> [NodeCount |-> nodeCount, MyCnf |-> myCnf,
                           RootPasswordSecretName |-> secretName,
                           PodSpec |-> podSpec]]]

BuildClusters ==
    { BuildCluster(n, c, r, ps) : n \in 1..MaxCount, c \in {"", "[mysqld]"},
        r \in {nil, Some(customSecretName)},
        ps \in {nil, Some([NodeSelector |-> "ssd"])} }

\* the config versions the builds are made for, of one and of two digits
Versions == (1..MaxVersion) \cup {10, 11}

ConfigSummary(version) == [MySQLServerConfigVersion |-> version]

GetMySQLServerNodeCount(nc) == nc.Spec.Mysqld.NodeCount
GetMySQLCnf(nc) == nc.Spec.Mysqld.MyCnf

\* the StatefulSet common to all node types, before the MySQL Server details
newStatefulSet(nc, cs) ==
    [Name |-> nc.Name \o "-mysqld", Namespace |-> nc.Namespace,
     Annotations |-> <<>>,
     Spec |-> [Replicas |-> nil, PodManagementPolicy |-> "OrderedReady",
               Template |-> [Annotations |-> <<>>,
                             Spec |-> [Containers |-> <<>>, Volumes |-> <<>>,
                                       Affinity |-> nil, NodeSelector |-> nil]]]]

\* the volumes of the pod: data directory, root password secret, init
\* scripts, helper scripts, and my.cnf when the cluster has one
getPodVolumes(nc) ==
    << [Name |-> "mysqld-vol", Source |-> "emptyDir"],
       [Name |-> "mysqld-root-password-vol",
        Source |-> GetMySQLRootPasswordSecretName(
                       nc.Spec.Mysqld.RootPasswordSecretName).secretName],
       [Name |-> "mysqld-init-scripts-vol", Source |-> nc.Name \o "-config"],
       [Name |-> "helper-scripts-vol", Source |-> nc.Name \o "-config"] >>
    \o (IF Len(GetMySQLCnf(nc)) > 0
        THEN << [Name |-> "mysqld-cnf-vol", Source |-> nc.Name \o "-config"] >>
        ELSE <<>>)

getVolumeMounts(nc) ==
    << "mysqld-vol", "mysqld-root-password-vol", "mysqld-init-scripts-vol",
       "helper-scripts-vol" >>
    \o (IF Len(GetMySQLCnf(nc)) > 0 THEN << "mysqld-cnf-vol" >> ELSE <<>>)

\* the one container of the pod: the entrypoint with its arguments, the
\* mounts and the environment
getContainers(nc) ==
    << [Name |-> "mysqld-container",
        Command |-> << "/entrypoint.sh" >>
                    \o (IF Len(GetMySQLCnf(nc)) > 0
                        THEN << "--defaults-file=/var/lib/ndb/cnf/my.cnf" >>
                        ELSE <<>>)
                    \o << "--ndbcluster", "--ndb-connectstring=" \o nc.Name \o "-mgmd",
                          "--user=mysql", "--datadir=/var/lib/ndb/data" >>,
        VolumeMounts |-> getVolumeMounts(nc),
        Env |-> << "MYSQL_ROOT_PASSWORD", "NDB_OPERATOR_ROOT_HOST" >>] >>

getPodAntiAffinity == {"mgmd", "ndbmtd", "mysqld"}

\* whatever the resource's pod spec names overrides the builder's choice
CopyPodSpecFromNdbPodSpec(podSpec, ndbPodSpec) ==
    IF IsNil(ndbPodSpec) THEN podSpec
    ELSE [podSpec EXCEPT !.NodeSelector = Some(Val(ndbPodSpec).NodeSelector)]

\* mutant: the config version annotates the StatefulSet, not its pod template
NewStatefulSet_AnnotatesStatefulSet(cs, nc) ==
    LET statefulSet == newStatefulSet(nc, cs)
        podSpec == [statefulSet.Spec.Template.Spec EXCEPT
                      !.Containers = getContainers(nc),
                      !.Volumes = getPodVolumes(nc),
                      !.Affinity = Some(getPodAntiAffinity)]
    IN  [statefulSet EXCEPT
           !.Spec.Replicas = Some(GetMySQLServerNodeCount(nc)),
           !.Spec.PodManagementPolicy = "Parallel",
           !.Annotations =
               SetKey(SetKey(@, RootPasswordSecret,
                          GetMySQLRootPasswordSecretName(
                              nc.Spec.Mysqld.RootPasswordSecretName).secretName),
                      LastAppliedMySQLServerConfigVersion,
                      FormatInt(cs.MySQLServerConfigVersion)),
           !.Spec.Template.Spec =
               CopyPodSpecFromNdbPodSpec(podSpec, nc.Spec.Mysqld.PodSpec)]

\* mutant: the replica count is left to the common builder
NewStatefulSet_NoReplicas(cs, nc) ==
    LET statefulSet == newStatefulSet(nc, cs)
        podSpec == [statefulSet.Spec.Template.Spec EXCEPT
                      !.Containers = getContainers(nc),
                      !.Volumes = getPodVolumes(nc),
                      !.Affinity = Some(getPodAntiAffinity)]
    IN  [statefulSet EXCEPT
           !.Spec.PodManagementPolicy = "Parallel",
           !.Annotations =
               SetKey(@, RootPasswordSecret,
                      GetMySQLRootPasswordSecretName(
                          nc.Spec.Mysqld.RootPasswordSecretName).secretName),
           !.Spec.Template.Spec =
               CopyPodSpecFromNdbPodSpec(podSpec, nc.Spec.Mysqld.PodSpec),
           !.Spec.Template.Annotations =
               SetKey(@, LastAppliedMySQLServerConfigVersion,
                      FormatInt(cs.MySQLServerConfigVersion))]

\* mysqldStatefulSet.NewStatefulSet
NewStatefulSet(cs, nc) ==
    LET statefulSet == newStatefulSet(nc, cs)
        podSpec == [statefulSet.Spec.Template.Spec EXCEPT
                      !.Containers = getContainers(nc),
                      !.Volumes = getPodVolumes(nc),
                      !.Affinity = Some(getPodAntiAffinity)]
    IN  [statefulSet EXCEPT
           !.Spec.Replicas = Some(GetMySQLServerNodeCount(nc)),
           !.Spec.PodManagementPolicy = "Parallel",
           !.Annotations =
               SetKey(@, RootPasswordSecret,
                      GetMySQLRootPasswordSecretName(
                          nc.Spec.Mysqld.RootPasswordSecretName).secretName),
           !.Spec.Template.Spec =
               CopyPodSpecFromNdbPodSpec(podSpec, nc.Spec.Mysqld.PodSpec),
           !.Spec.Template.Annotations =
               SetKey(@, LastAppliedMySQLServerConfigVersion,
                      FormatInt(cs.MySQLServerConfigVersion))]

\* a build: the config summary, the cluster and the StatefulSet returned
Built(cs, nc) == [cs |-> cs, nc |-> nc, statefulSet |-> NewStatefulSet(cs, nc)]

\* the cluster's MySQL Server section is given or changed
SetCluster(nc) ==
    /\ built.nc # Some(nc)
    /\ IsNil(built.second)
    /\ built' = [built EXCEPT !.nc = Some(nc)]
    /\ UNCHANGED <<admVars, sysVars, srvVars, ctlVars, cacheVars, testRunner>>

\* the first build
BuildFirst(version) ==
    /\ ~IsNil(built.nc)
    /\ IsNil(built.first)
    /\ built' = [built EXCEPT !.first = Some(Built(ConfigSummary(version), Val(built.nc)))]
    /\ UNCHANGED <<admVars, sysVars, srvVars, ctlVars, cacheVars, testRunner>>

\* the second build
BuildSecond(version) ==
    /\ ~IsNil(built.nc)
    /\ ~IsNil(built.first)
    /\ IsNil(built.second)
    /\ built' = [built EXCEPT !.second = Some(Built(ConfigSummary(version), Val(built.nc)))]
    /\ UNCHANGED <<admVars, sysVars, srvVars, ctlVars, cacheVars, testRunner>>

BuildNext ==
    \/ \E nc \in BuildClusters : SetCluster(nc)
    \/ \E version \in Versions : BuildFirst(version)
    \/ \E version \in Versions : BuildSecond(version)

SpecBuild == Init /\ [][BuildNext]_vars

----------------------------------------------------------------------------
(* The e2e test runner: run in the main goroutine, the signal handler in   *)
(* a goroutine of its own, and the commands both start with execCommand.   *)

\* the signals that arrive while the tests run
MaxSignals == 2

\* the capacity of the signal channel
SigsCapacity == 2

AbortSignals == {"SIGINT", "SIGQUIT", "SIGTSTP"}
Signals == AbortSignals \cup {"SIGTERM"}

\* a call of execCommand and what its caller does when it returns false:
\* "return" false, "fatal" exit, "dump" the pod's details and return false,
\* "ignore" it; "always" returns false whatever the command did
Cmd(name, passSignals, onFail) ==
    [kind |-> "cmd", name |-> name, passSignals |-> passSignals, onFail |-> onFail]

\* a call that runs no command
Call(name, onFail) ==
    [kind |-> "call", name |-> name, passSignals |-> FALSE, onFail |-> onFail]

\* the steps of setupK8sCluster
setupK8sCluster(p, inCluster) ==
    IF p = "kind"
    THEN << Cmd("docker info", FALSE, "fatal"),
            Cmd("kind create cluster", TRUE, "return"),
            Cmd("kind load docker-image", TRUE, "return") >>
         \o (IF inCluster THEN << Cmd("kind load docker-image", TRUE, "return") >>
             ELSE <<>>)
         \o << Call("initClientsetFromKubeconfig", "return") >>
    ELSE << Call("initClientsetFromKubeconfig", "return") >>

\* the steps of runGinkgoTestsInsideCluster
runGinkgoTestsInsideCluster(p) ==
    IF p = "kind"
    THEN << Cmd("kubectl apply", TRUE, "return"),
            Call("waitForPodToStart", "dump"),
            Cmd("kubectl logs", TRUE, "dump"),
            Call("waitForPodToTerminate", "dump") >>
    ELSE << Call("log.Fatal", "fatal") >>

runGinkgoTests == << Cmd("ginkgo", TRUE, "return") >>

dumpPodInfo == << Cmd("kubectl describe", TRUE, "always") >>

\* the steps of teardownK8sCluster: a no-op for the local provider
teardownK8sCluster(p) ==
    IF p = "kind" THEN << Cmd("kind delete cluster", TRUE, "ignore") >> ELSE <<>>

\* the program has exited: log.Fatal in either goroutine, or run returned
\* to main
Exited == testRunner.main.pc = "fatal" \/ testRunner.handler.pc = "fatal"
Halted == Exited \/ testRunner.main.pc = "returned"

\* run's deferred function: teardown, then stopSignalHandler
Deferred(t, m, ok) ==
    LET script == teardownK8sCluster(Val(t.p))
    IN  [m EXCEPT !.phase = "defer", !.script = script, !.cmd = nil,
                  !.ok = ok, !.pc = IF script = <<>> THEN "stop" ELSE "call"]

\* run goes on after a step that succeeded
Continue(t, m) ==
    IF Len(m.script) > 1 THEN [m EXCEPT !.script = Tail(@), !.cmd = nil, !.pc = "call"]
    ELSE IF m.phase = "setup"
    THEN [m EXCEPT !.phase = "tests", !.cmd = nil, !.pc = "call",
                   !.script = IF t.inCluster THEN runGinkgoTestsInsideCluster(Val(t.p))
                              ELSE runGinkgoTests]
    ELSE IF m.phase = "tests" THEN Deferred(t, m, m.ok)
    ELSE [m EXCEPT !.script = <<>>, !.cmd = nil, !.pc = "stop"]

\* run goes on after the step at the head of its script returned ok
Proceed(t, m, ok) ==
    LET step == Head(m.script)
    IN  IF step.onFail = "always" THEN Deferred(t, m, FALSE)
        ELSE IF ok \/ step.onFail = "ignore" THEN Continue(t, m)
        ELSE IF step.onFail = "fatal" THEN [m EXCEPT !.pc = "fatal"]
        ELSE IF step.onFail = "dump"
        THEN [m EXCEPT !.script = dumpPodInfo, !.cmd = nil, !.ok = FALSE, !.pc = "call"]
        ELSE Deferred(t, m, FALSE)

\* execCommand returns ok to goroutine g: run goes on with its script, the
\* signal handler with log.Fatalf
ExecReturns(t, g, ok) ==
    IF g = "main" THEN [t EXCEPT !.main = Proceed(t, t.main, ok)]
    ELSE [t EXCEPT !.handler.pc = "fatal"]

Frame == <<admVars, sysVars, srvVars, ctlVars, cacheVars, built>>

\* run up to its defer statement: the provider is chosen and stored, the
\* signal handler is started
Run(useKind, inCluster) ==
    /\ testRunner.main.pc = "run"
    /\ testRunner' =
         [testRunner EXCEPT
            !.p = Some(IF useKind THEN "kind" ELSE "local"),
            !.inCluster = inCluster,
            !.handler.pc = "select",
            !.main = [pc |-> "call", phase |-> "setup", cmd |-> nil,
                      ret |-> TRUE, ok |-> TRUE,
                      script |-> setupK8sCluster(IF useKind THEN "kind" ELSE "local",
                                                 inCluster)]]
    /\ UNCHANGED Frame

\* run reaches a step that runs no command: it succeeds or fails
MainCall(ok) ==
    /\ ~Halted
    /\ testRunner.main.pc = "call"
    /\ Head(testRunner.main.script).kind = "call"
    /\ ok => Head(testRunner.main.script).onFail # "fatal"
    /\ testRunner' = [testRunner EXCEPT !.main = Proceed(testRunner, @, ok)]
    /\ UNCHANGED Frame

\* run calls execCommand
MainExec ==
    /\ ~Halted
    /\ testRunner.main.pc = "call"
    /\ Head(testRunner.main.script).kind = "cmd"
    /\ testRunner' = [testRunner EXCEPT !.main.pc = "exec.lock",
                                        !.main.cmd = Some(Head(testRunner.main.script))]
    /\ UNCHANGED Frame

\* execCommand: t.sigMutex.Lock()
ExecLock(g) ==
    /\ ~Halted
    /\ testRunner[g].pc = "exec.lock"
    /\ testRunner.sigMutex = ""
    /\ testRunner' = [testRunner EXCEPT !.sigMutex = g, ![g].pc = "exec.start"]
    /\ UNCHANGED Frame

\* execCommand: cmd.Start(); on an error execCommand returns false, else the
\* process and passSignals are stored and sigMutex is unlocked
ExecStart(g, started) ==
    /\ ~Halted
    /\ testRunner[g].pc = "exec.start"
    /\ testRunner' =
         IF ~started THEN ExecReturns(testRunner, g, FALSE)
         ELSE [testRunner EXCEPT
                 !.process = Some(Val(testRunner[g].cmd).name),
                 !.passSignals = Val(testRunner[g].cmd).passSignals,
                 !.sigMutex = "",
                 ![g].pc = "exec.wait"]
    /\ UNCHANGED Frame

\* execCommand: cmd.Wait() returns, with or without an error
ExecWait(g, ok) ==
    /\ ~Halted
    /\ testRunner[g].pc = "exec.wait"
    /\ testRunner' = [testRunner EXCEPT ![g].pc = "exec.reset", ![g].ret = ok]
    /\ UNCHANGED Frame

\* execCommand's deferred function: under sigMutex the process is reset;
\* then execCommand returns
ExecReset(g) ==
    /\ ~Halted
    /\ testRunner[g].pc = "exec.reset"
    /\ testRunner.sigMutex = ""
    /\ testRunner' =
         ExecReturns([testRunner EXCEPT !.process = nil], g, testRunner[g].ret)
    /\ UNCHANGED Frame

\* a signal arrives: it is put into the channel unless the channel is full
Signal(sig) ==
    /\ ~Halted
    /\ testRunner.handler.pc # "off"
    /\ testRunner.sent < MaxSignals
    /\ testRunner' =
         [testRunner EXCEPT
            !.sent = @ + 1,
            !.sigs = IF Len(@) < SigsCapacity THEN Append(@, sig) ELSE @]
    /\ UNCHANGED Frame

\* the signal handler's select: a signal is received
HandlerReceive ==
    /\ ~Halted
    /\ testRunner.handler.pc = "select"
    /\ testRunner.sigs # <<>>
    /\ testRunner' = [testRunner EXCEPT !.sigs = Tail(@),
                                        !.handler.sig = Some(Head(testRunner.sigs)),
                                        !.handler.pc = "lock"]
    /\ UNCHANGED Frame

\* the signal handler: t.sigMutex.Lock()
HandlerLock ==
    /\ ~Halted
    /\ testRunner.handler.pc = "lock"
    /\ testRunner.sigMutex = ""
    /\ testRunner' = [testRunner EXCEPT !.sigMutex = "handler", !.handler.pc = "handle"]
    /\ UNCHANGED Frame

\* the signal handler under sigMutex: with a process running the signal is
\* passed on or ignored; without one an abort signal tears the cluster down
\* and exits, any other signal is ignored
HandlerHandle ==
    /\ ~Halted
    /\ testRunner.handler.pc = "handle"
    /\ testRunner' =
         IF IsNil(testRunner.process) /\ Val(testRunner.handler.sig) \in AbortSignals
         THEN IF teardownK8sCluster(Val(testRunner.p)) = <<>>
              THEN [testRunner EXCEPT !.handler.pc = "fatal"]
              ELSE [testRunner EXCEPT
                      !.handler.pc = "exec.lock",
                      !.handler.cmd = Some(Head(teardownK8sCluster(Val(testRunner.p))))]
         ELSE [testRunner EXCEPT !.sigMutex = "", !.handler.pc = "select",
                                 !.handler.sig = nil]
    /\ UNCHANGED Frame

\* stopSignalHandler: run sends on runDone, the handler's select receives
\* it and the goroutine returns; then run returns
stopSignalHandler ==
    /\ ~Halted
    /\ testRunner.main.pc = "stop"
    /\ testRunner.handler.pc = "select"
    /\ testRunner' = [testRunner EXCEPT !.main.pc = "returned",
                                        !.handler.pc = "returned"]
    /\ UNCHANGED Frame

Goroutines == {"main", "handler"}

RunnerNext ==
    \/ \E useKind, inCluster \in BOOLEAN : Run(useKind, inCluster)
    \/ \E ok \in BOOLEAN : MainCall(ok)
    \/ MainExec
    \/ \E g \in Goroutines : ExecLock(g)
    \/ \E g \in Goroutines : \E started \in BOOLEAN : ExecStart(g, started)
    \/ \E g \in Goroutines : \E ok \in BOOLEAN : ExecWait(g, ok)
    \/ \E g \in Goroutines : ExecReset(g)
    \/ \E sig \in Signals : Signal(sig)
    \/ HandlerReceive
    \/ HandlerLock
    \/ HandlerHandle
    \/ stopSignalHandler

SpecRunner == Init /\ [][RunnerNext]_vars

\* the scheduling of the goroutines and the commands: a goroutine that can
\* take a step takes it, a started command ends; signals are free
RunnerFairness ==
    /\ WF_vars(\E ok \in BOOLEAN : MainCall(ok))
    /\ WF_vars(MainExec)
    /\ \A g \in Goroutines : WF_vars(ExecLock(g))
    /\ \A g \in Goroutines : WF_vars(\E started \in BOOLEAN : ExecStart(g, started))
    /\ \A g \in Goroutines : WF_vars(\E ok \in BOOLEAN : ExecWait(g, ok))
    /\ \A g \in Goroutines : WF_vars(ExecReset(g))
    /\ WF_vars(HandlerReceive)
    /\ WF_vars(HandlerLock)
    /\ WF_vars(HandlerHandle)
    /\ WF_vars(stopSignalHandler)
    /\ WF_vars(\E useKind, inCluster \in BOOLEAN : Run(useKind, inCluster))

SpecRunnerFair == Init /\ [][RunnerNext]_vars /\ RunnerFairness

----------------------------------------------------------------------------
(* Properties of the admission handlers (checked under SpecAdmission)      *)

ReqObject == NewObject(areq.doc)
ReqOld == Val(areq.old)
ReqMysqld == Val(ReqObject.Spec.Mysqld)

AddMysqldOp == [op |-> "add", path |-> "/spec/mysqld", value |-> JObjNodeCount(1)]
ReplaceNodeCountOp == [op |-> "replace", path |-> "/spec/mysqld/nodeCount", value |-> JInt(1)]

\* C1: an update whose old object has status.processedGeneration # generation
\* is denied with the retryable TooManyRequests reason, never a validation
\* reason, whether the new spec is a valid transition or not.
C1_DeniesWhileUnprocessed ==
    (areq.kind = "update" /\ ReqOld.Status.ProcessedGeneration # ReqOld.Generation)
        => resp = [Allowed |-> FALSE, Reason |-> "TooManyRequests"]

\* C1 witness: a valid transition denied because the old generation is unprocessed
C1_Witness ==
    /\ areq.kind = "update"
    /\ ReqOld.Status.ProcessedGeneration # ReqOld.Generation
    /\ IsValidSpecUpdate(ReqOld, ReqObject)
    /\ resp = [Allowed |-> FALSE, Reason |-> "TooManyRequests"]

\* C2: with status.processedGeneration = generation, validateUpdate allows
\* exactly the valid spec updates, and denies the others with a validation reason.
C2_AllowsValidUpdate ==
    (areq.kind = "update" /\ ReqOld.Status.ProcessedGeneration = ReqOld.Generation)
        => /\ resp.Allowed <=> IsValidSpecUpdate(ReqOld, ReqObject)
           /\ ~resp.Allowed => resp.Reason = "Invalid"

\* C2 witness: a valid update of a fully processed resource is allowed
C2_Witness ==
    /\ areq.kind = "update"
    /\ ReqOld.Status.ProcessedGeneration = ReqOld.Generation
    /\ IsValidSpecUpdate(ReqOld, ReqObject)
    /\ ReqObject.Spec # ReqOld.Spec
    /\ resp.Allowed

\* C7: mutate is idempotent: after the returned patch is applied, mutate on
\* the patched object returns no patch.
C7_MutateIdempotent ==
    areq.kind = "remutate" => patch = <<>>

\* C7 witness: mutate has run a second time, on a patched object
C7_Witness ==
    /\ areq.kind = "remutate"
    /\ ~IsNil(ReqObject.Spec.Mysqld)

C9_PatchSetsMaximum ==
    ( /\ areq.kind = "mutate"
      /\ ~IsNil(areq.doc.mysqld)
      /\ ~IsNil(Val(areq.doc.mysqld).nodeCount)
      /\ IsNil(Val(areq.doc.mysqld).maxNodeCount) )
        => \E i \in 1..Len(patch) : patch[i].path = "/spec/mysqld/maxNodeCount"

\* C9 amended: mutate never emits an operation on the maximum: for a section
\* with a node count and no maximum the patch is the node-count replacement
\* (count 0) or nil, and every operation of any patch is on /spec/mysqld or
\* /spec/mysqld/nodeCount.
C9_NoMaximumOperation ==
    areq.kind = "mutate" =>
        /\ \A i \in 1..Len(patch) :
              patch[i].path \in {"/spec/mysqld", "/spec/mysqld/nodeCount"}
        /\ ( /\ ~IsNil(areq.doc.mysqld)
              /\ ~IsNil(Val(areq.doc.mysqld).nodeCount)
              /\ IsNil(Val(areq.doc.mysqld).maxNodeCount) )
              => patch = IF ReqMysqld.NodeCount = 0 THEN <<ReplaceNodeCountOp>> ELSE <<>>

\* C9 witness: mutate ran on a section with a positive count and no maximum
C9_Witness ==
    /\ areq.kind = "mutate"
    /\ ~IsNil(areq.doc.mysqld)
    /\ Val(areq.doc.mysqld).nodeCount = Some(MaxCount)
    /\ IsNil(Val(areq.doc.mysqld).maxNodeCount)
    /\ patch = <<>>

\* C10: validateCreate denies, with the validation reason, exactly when the
\* new object's spec is invalid; the response is determined by the new object
\* alone, whatever was handled before.
C10_ValidateCreate ==
    areq.kind = "create" =>
        resp = IF HasValidSpec(ReqObject)
               THEN [Allowed |-> TRUE, Reason |-> ""]
               ELSE [Allowed |-> FALSE, Reason |-> "Invalid"]

\* C10 witness: a create request with an invalid spec was denied
C10_Witness ==
    /\ areq.kind = "create"
    /\ ~HasValidSpec(ReqObject)
    /\ ~resp.Allowed

----------------------------------------------------------------------------
(* Properties of the system (checked under Spec)                           *)

Stored == Val(ndb)
Unprocessed == Stored.Status.ProcessedGeneration # Stored.Generation

\* C3: a spec update submitted while processedGeneration # generation is
\* denied and the stored resource (spec, generation, status, resourceVersion)
\* stays as it is; a denied create or update writes nothing at all.
C3_DeniedUpdateWritesNothing ==
    [][ /\ ((\E d \in SysDocs : UpdateNdb(d)) /\ Unprocessed)
            => (resp' = [Allowed |-> FALSE, Reason |-> "TooManyRequests"]
                  /\ ndb' = ndb)
        /\ (((\E d \in SysDocs : UpdateNdb(d)) \/ (\E d \in SysDocs : CreateNdb(d)))
               /\ ~resp'.Allowed)
            => UNCHANGED sysVars ]_vars

\* C3 witness: an update was denied while the stored generation is unprocessed
C3_Witness ==
    /\ areq.kind = "update"
    /\ resp = [Allowed |-> FALSE, Reason |-> "TooManyRequests"]
    /\ ~IsNil(ndb)
    /\ Unprocessed
    /\ Stored.Generation = 2

\* C4: status.processedGeneration <= generation in every reachable state.
C4_ProcessedAtMostGeneration ==
    ~IsNil(ndb) => Stored.Status.ProcessedGeneration <= Stored.Generation

\* C4 witness: a second generation was written and then fully processed
C4_Witness ==
    /\ ~IsNil(ndb)
    /\ Stored.Generation = 2
    /\ Stored.Status.ProcessedGeneration = 2

\* C5: status.processedGeneration changes only in step 5 of a pass that
\* observed all workloads healthy, and a pass is in step 3, 4 or 5 only if its
\* health gate passed.
C5_ProcessedOnlyWhenHealthy ==
    [][ /\ ( /\ ~IsNil(ndb) /\ ~IsNil(ndb')
              /\ Val(ndb').Status.ProcessedGeneration # Stored.Status.ProcessedGeneration )
            => (InPass("status") /\ Val(pass).healthy)
        /\ (~IsNil(pass') /\ Val(pass').pc \in {"converge", "accept", "status"})
            => Val(pass').healthy ]_vars

\* C5 witness: a pass that found the workloads healthy recorded its generation
C5_Witness ==
    /\ InPass("done")
    /\ Val(pass).healthy
    /\ Val(pass).result = finishProcessing
    /\ ~IsNil(Val(pass).ndb)
    /\ Copy.Status.ProcessedGeneration # Copy.Generation
    /\ ~IsNil(ndb)
    /\ Stored.Status.ProcessedGeneration = Copy.Generation

\* C6: a new config version is written only in step 4 of a pass whose step 2
\* found the workloads healthy and whose step 3 found them aligned with the
\* last written config version, which they still reflect when it is replaced;
\* steps 2, 3, 4 are entered in that order.
C6_AcceptOnlyWhenAligned ==
    [][ /\ (~IsNil(config) /\ ~IsNil(config') /\ config' # config)
            => /\ InPass("accept")
               /\ Val(pass).healthy /\ Val(pass).aligned
               /\ ~IsNil(wl) => Val(wl).Live = Val(config).Version
        /\ (~IsNil(pass') /\ Val(pass').pc = "accept")
            => /\ Val(pass').healthy /\ Val(pass').aligned
               /\ InPass("converge") \/ InPass("accept")
        /\ (~IsNil(pass') /\ Val(pass').pc = "converge")
            => (InPass("health") \/ InPass("converge")) ]_vars

\* C6 witness: a second config version was written by an aligned pass
C6_Witness ==
    /\ InPass("done")
    /\ Val(pass).aligned
    /\ Val(pass).result = requeueInSeconds
    /\ ~IsNil(config)
    /\ Val(config).Version = 2
    /\ ~IsNil(wl)
    /\ Val(wl).Live = 1

----------------------------------------------------------------------------
(* Properties of the webhook server (checked under SpecServe)              *)

\* the request met an internal error: its body does not decode, its
\* resource is not the admission controller's, or mutate has operations
\* that cannot be encoded
DecodeFailure == ~Val(review).decodes
UnsupportedKind == Val(review).decodes /\ Val(review).resource # getGVR
PatchFailure ==
    /\ Val(review).decodes
    /\ Val(review).resource = getGVR
    /\ Val(review).path = "mutate"
    /\ mutate(NewObject(Val(review).doc)) # <<>>
    /\ Val(review).marshalFails
InternalError == DecodeFailure \/ UnsupportedKind \/ PatchFailure

\* C11: admission fails closed: the answer to a request that met an internal
\* error (decode failure, unsupported kind, failure to build the patch in
\* mutate) is a denial that carries an error message, never an allowance.
C11_FailsClosed ==
    (Serving("answered") /\ InternalError)
        => /\ ~IsNil(reply)
           /\ ~Val(reply).Allowed
           /\ Val(reply).Message # ""
           /\ IsNil(Val(reply).Patch)

\* a request whose patch could not be encoded has been answered with a denial
C11_Witness ==
    /\ Serving("answered")
    /\ PatchFailure
    /\ ~Val(reply).Allowed

----------------------------------------------------------------------------
(* Properties of the work queue and the workers (checked under SpecQueue)  *)

\* the workers running syncHandler for key k
Passes(k) == {w \in Workers : workers[w].pc = "sync" /\ workers[w].item = Some(k)}

\* C12: for a single resource key at most one reconciliation pass
\* (syncHandler) executes at any time, whatever the workers and the events
\* do; passes for distinct keys may run at the same time.
C12_OnePassPerKey == \A k \in Keys : Cardinality(Passes(k)) <= 1

\* two workers run passes for two distinct keys at the same time
C12_Witness ==
    \E k1, k2 \in Keys : k1 # k2 /\ Passes(k1) # {} /\ Passes(k2) # {}

\* the number of entries of key k that can be popped
Poppable(k) == Cardinality({i \in 1..Len(wq.queue) : wq.queue[i] = k})

\* a worker holds key k: it got the key and has not called Done yet
InFlight(k) ==
    \E w \in Workers : workers[w].pc \in {"sync", "done"} /\ workers[w].item = Some(k)

\* C13: de-duplication: a key added once or more while it is pending has
\* exactly one entry to pop; a key added once or more while a pass for it is
\* in flight has no entry to pop until Done is called for that pass, and
\* exactly one after it.
C13_Deduplication ==
    \A k \in Keys :
        /\ Poppable(k) <= 1
        /\ InFlight(k) => Poppable(k) = 0
        /\ (adds[k] >= 1 /\ InFlight(k)) => k \in wq.dirty
        /\ (adds[k] >= 1 /\ ~InFlight(k)) => Poppable(k) = 1
        /\ (adds[k] = 0) => Poppable(k) = 0

\* a key was added twice while a pass for it is in flight; and a key was
\* added twice while pending
C13_Witness ==
    \E k1, k2 \in Keys :
        /\ InFlight(k1) /\ adds[k1] = MaxAdds
        /\ ~InFlight(k2) /\ adds[k2] = MaxAdds /\ Poppable(k2) = 1

----------------------------------------------------------------------------
(* Properties of the event handlers (checked under SpecEvents)             *)

Ev == Val(event)
OldObj == Val(Ev.old)
NewObj == Val(Ev.new)

Handled(stream, type) ==
    /\ ~IsNil(event)
    /\ Ev.handled
    /\ Ev.stream = stream
    /\ Ev.type = type

\* the handler passed exactly key k to the work queue, where it now waits
\* for a pass
Queued(k) == Ev.added = <<k>> /\ k \in wq.dirty

\* the handler passed nothing to the work queue
Skipped == Ev.added = <<>>

\* an update notification that repeats the cached object (resync/requeue)
Resync ==
    /\ Handled("NdbCluster", "update")
    /\ OldObj.Generation = NewObj.Generation
    /\ OldObj.ResourceVersion = NewObj.ResourceVersion

\* C14 as stated: on a resync the key is enqueued exactly when
\* generation != status.processedGeneration.
C14_ResyncEnqueuesOutstanding ==
    Resync => (~Skipped <=> NewObj.Generation # NewObj.Status.ProcessedGeneration)

\* C14 (amended): on an update notification in which neither generation nor
\* resourceVersion changed, the key is enqueued only if generation equals
\* status.processedGeneration; when they differ a reconciliation is under
\* way and the notification is skipped without enqueue.
C14_ResyncEnqueuesProcessed ==
    Resync =>
        IF NewObj.Generation = NewObj.Status.ProcessedGeneration
        THEN Queued(getNdbClusterKey(NewObj))
        ELSE Skipped

\* a resync of a fully processed resource has queued its key
C14_Witness ==
    /\ Resync
    /\ NewObj.Generation = NewObj.Status.ProcessedGeneration
    /\ Queued(getNdbClusterKey(NewObj))

\* the notification being delivered is a status-only update: generation
\* unchanged, resourceVersion changed
StatusOnlyUpdate ==
    /\ ~IsNil(event)
    /\ Val(event).stream = "NdbCluster"
    /\ Val(event).type = "update"
    /\ Val(Val(event).old).Generation = Val(Val(event).new).Generation
    /\ Val(Val(event).old).ResourceVersion # Val(Val(event).new).ResourceVersion

\* C15: handling an update notification in which generation is unchanged and
\* resourceVersion changed passes no key to the work queue and leaves the
\* queue as it was; so the status patch of a pass queues nothing.
C15_StatusUpdateNeverEnqueues ==
    [][ (StatusOnlyUpdate /\ ~Val(event).handled /\ Val(event').handled)
            => /\ wq' = wq
               /\ adds' = adds
               /\ Val(event').added = <<>> ]_vars

\* the status patch that closes a pass (processedGeneration set to the
\* generation) was delivered and the key is not queued
C15_Witness ==
    /\ StatusOnlyUpdate
    /\ Ev.handled
    /\ OldObj.Status.ProcessedGeneration < OldObj.Generation
    /\ NewObj.Status.ProcessedGeneration = NewObj.Generation
    /\ getNdbClusterKey(NewObj) \notin wq.dirty

\* C16: an update notification whose generation differs between the old and
\* the new object always enqueues the resource's key, whatever
\* processedGeneration and resourceVersion are.
C16_GenerationChangeEnqueues ==
    (Handled("NdbCluster", "update") /\ OldObj.Generation # NewObj.Generation)
        => Queued(getNdbClusterKey(NewObj))

\* a spec update of a resource whose previous generation was not processed
\* yet has queued the key
C16_Witness ==
    /\ Handled("NdbCluster", "update")
    /\ OldObj.Generation # NewObj.Generation
    /\ OldObj.Status.ProcessedGeneration # OldObj.Generation
    /\ Queued(getNdbClusterKey(NewObj))

\* C17: every add notification of an NdbCluster enqueues its namespace/name
\* key, whatever the object's state.
C17_AddEnqueues ==
    Handled("NdbCluster", "add") => Queued(NdbKey(NewObj.Namespace, NewObj.Name))

\* the add of a resource that is already fully processed (a controller
\* restart lists it) has queued the key
C17_Witness ==
    /\ Handled("NdbCluster", "add")
    /\ NewObj.Generation = NewObj.Status.ProcessedGeneration
    /\ Queued(NdbKey(NewObj.Namespace, NewObj.Name))

\* C18: handling a delete notification of an NdbCluster adds nothing to the
\* work queue and writes nothing to the cluster.
C18_DeleteOnlyLogs ==
    [][ (Pending("NdbCluster", "delete") /\ Val(event').handled)
            => /\ wq' = wq
               /\ adds' = adds
               /\ Val(event').added = <<>>
               /\ UNCHANGED sysVars ]_vars

\* a delete notification was handled and the resource's key is not queued
C18_Witness ==
    /\ Handled("NdbCluster", "delete")
    /\ getNdbClusterKey(OldObj) \notin wq.dirty

\* an update notification of a workload carrying the cluster label
OwnedWorkloadUpdate ==
    /\ Handled("Deployment", "update") \/ Handled("StatefulSet", "update")
    /\ FilterFunc(NewObj)

\* C19 as stated: the owner is enqueued only on the transition into the
\* complete/ready state between the old and the new object.
C19_EdgeTriggered ==
    OwnedWorkloadUpdate => (~Skipped <=> (~OldObj.Complete /\ NewObj.Complete))

\* C19 (amended): owned-workload update notifications are level-triggered:
\* the owner is enqueued whenever the new object is complete (Deployment) or
\* ready (StatefulSet), also when the old object already was; an update
\* whose new object is not complete/ready enqueues nothing.
C19_LevelTriggered ==
    OwnedWorkloadUpdate =>
        IF NewObj.Complete
        THEN Queued(NdbKey(NewObj.Namespace, Val(NewObj.Labels)))
        ELSE Skipped

\* an update of a workload that was complete before and after has queued
\* the owner
C19_Witness ==
    /\ OwnedWorkloadUpdate
    /\ OldObj.Complete
    /\ NewObj.Complete
    /\ Queued(NdbKey(NewObj.Namespace, Val(NewObj.Labels)))

----------------------------------------------------------------------------
(* Properties of processNextWorkItem's requeue handling (SpecQueue)        *)

\* worker w leaves syncHandler in this step with result sr
Returns(w, sr) ==
    /\ workers[w].pc = "sync"
    /\ workers'[w].pc = "done"
    /\ workers'[w].sr = Some(sr)

\* the queue's state apart from the rate limiter's counts and the delayed adds
QueueProper(q) == <<q.queue, q.dirty, q.processing, q.shuttingDown>>

\* C21: when a pass returns an error, the key is re-queued with
\* AddRateLimited: its failure count grows (no Forget), the key waits for
\* its backoff (no immediate Add), and the worker goes on to Done and the
\* next item.
C21_ErrorRequeuesRateLimited ==
    [][ \A w \in Workers :
          Returns(w, errorWhileProcessing) =>
            LET key == Val(workers[w].item)
            IN  /\ wq'.failures[key] = Min(wq.failures[key] + 1, MaxFailures)
                /\ wq'.failures[key] >= 1
                /\ ~wq.shuttingDown => key \in wq'.waiting
                /\ QueueProper(wq') = QueueProper(wq)
                /\ workers'[w].item = Some(key) ]_vars

\* a key failed twice in a row: its backoff has grown and it waits again
C21_Witness ==
    \E w \in Workers :
        /\ workers[w].pc = "done"
        /\ workers[w].sr = Some(errorWhileProcessing)
        /\ wq.failures[Val(workers[w].item)] = 2
        /\ Val(workers[w].item) \in wq.waiting

\* C22: when a pass returns without error, Forget is always called (the
\* failure count is reset, so AddRateLimited was not) and AddAfter is called
\* exactly when the result asks for a requeue; on completion nothing is added
\* to the queue.
C22_SuccessForgetsAndRequeuesOnDemand ==
    [][ \A w \in Workers :
          LET key == Val(workers[w].item)
          IN  /\ Returns(w, requeueInSeconds) =>
                    /\ wq'.failures = [wq.failures EXCEPT ![key] = 0]
                    /\ wq'.waiting = IF wq.shuttingDown THEN wq.waiting
                                     ELSE wq.waiting \cup {key}
                    /\ QueueProper(wq') = QueueProper(wq)
              /\ Returns(w, finishProcessing) =>
                    /\ wq'.failures = [wq.failures EXCEPT ![key] = 0]
                    /\ wq'.waiting = wq.waiting
                    /\ QueueProper(wq') = QueueProper(wq) ]_vars

\* a pass that asked for a requeue left the key waiting with no backoff, and
\* another worker completed a pass whose key is not waiting
C22_Witness ==
    \E w1, w2 \in Workers :
        /\ workers[w1].pc = "done"
        /\ workers[w1].sr = Some(requeueInSeconds)
        /\ Val(workers[w1].item) \in wq.waiting
        /\ wq.failures[Val(workers[w1].item)] = 0
        /\ workers[w2].pc = "done"
        /\ workers[w2].sr = Some(finishProcessing)
        /\ Val(workers[w2].item) \notin wq.waiting

----------------------------------------------------------------------------
(* Retry of failed passes (checked under SpecQueueFair)                    *)

\* a pass for key k has just failed
Failed(k) ==
    \E w \in Workers :
        /\ workers[w].pc = "done"
        /\ workers[w].item = Some(k)
        /\ workers[w].sr = Some(errorWhileProcessing)

\* key k is in the queue's hands: waiting for its delay, marked for a pass,
\* or held by a worker
Tracked(k) == k \in wq.waiting \/ k \in wq.dirty \/ InFlight(k)

\* C24: a key is never lost because of a transient error: unless the queue
\* is shut down, a key whose pass failed is eventually processed again, and
\* while its failure count stands (it is cleared only by a pass that ends
\* without error) the key stays in the queue's hands.
C24_FailedKeyIsRetried ==
    /\ \A k \in Keys : Failed(k) ~> (Passes(k) # {} \/ wq.shuttingDown)
    /\ [](\A k \in Keys : (wq.failures[k] > 0 /\ ~wq.shuttingDown) => Tracked(k))
    /\ [][ \A k \in Keys :
            (wq.failures[k] > 0 /\ wq'.failures[k] = 0) =>
                \E w \in Workers :
                    /\ workers[w].item = Some(k)
                    /\ workers'[w].sr \in {Some(finishProcessing), Some(requeueInSeconds)} ]_vars

\* a key whose pass failed before is being processed again
C24_Witness ==
    \E w \in Workers :
        /\ workers[w].pc = "sync"
        /\ wq.failures[Val(workers[w].item)] >= 1
        /\ ~wq.shuttingDown

----------------------------------------------------------------------------
(* Shutdown (checked under SpecQueueFair)                                  *)

\* worker w returns from a call of Get in this step
GetReturns(w) == workers[w].pc = "get" /\ workers'[w].pc # "get"

----------------------------------------------------------------------------
(* Restart and the pass's copy (checked under SpecController)              *)

\* a config version replaces another in this step
WritesConfig == ~IsNil(config) /\ ~IsNil(config') /\ config' # config

\* the last config version was written for the stored generation, which is
\* not yet processed, and the workloads do not yet run it
RolloutPending ==
    /\ ~IsNil(ndb) /\ ~IsNil(config) /\ ~IsNil(wl)
    /\ Unprocessed
    /\ Val(config).Generation = Stored.Generation
    /\ Val(wl).Live # Val(config).Version

\* C26: whether or not the controller was restarted since a config version
\* was written, a pass that finds the workloads behind the last written
\* version goes on with its rollout in step 3 and ends there, and no pass
\* writes a second config version for a generation: every new version is
\* the next one and belongs to a later generation than the one it replaces.
C26_RestartResumesRollout ==
    [][ /\ WritesConfig =>
              /\ Val(config').Version = Val(config).Version + 1
              /\ Val(config').Generation > Val(config).Generation
        /\ (InPass("converge") /\ pass' # pass /\ ~IsNil(pass')
              /\ ~IsNil(wl) /\ ~IsNil(config) /\ ~AlignedWithConfig) =>
              /\ Val(wl').Template = Val(config).Version
              /\ config' = config
              /\ Val(pass').pc = "done"
              /\ Val(pass').result = requeueInSeconds
        /\ (InPass("accept") /\ ~IsNil(config)
              /\ Val(config).Generation = Copy.Generation) => config' = config ]_vars

\* C26 witness: after a restart, with the rollout of the second config
\* version pending, a pass of the new process has gone on with the rollout
C26_Witness ==
    /\ restarted
    /\ RolloutPending
    /\ Val(config).Version = 2
    /\ InPass("done")
    /\ Val(pass).result = requeueInSeconds
    /\ Copy.Generation = Val(config).Generation
    /\ Val(wl).Template = Val(config).Version

\* C28: the object of the informer cache changes only when the informer (or
\* the cache sync of a new process) replaces it by the stored object, never
\* in a step of a pass, whatever the pass's outcome; and a pass starts from
\* a copy of the cached object, so no pass sees what another did in memory.
C28_PassLeavesCacheAlone ==
    [][ /\ ndbsLister'.obj # ndbsLister.obj =>
              /\ ndbsLister'.obj = ndb
              /\ UNCHANGED sysVars \/ (restarted' /\ ~restarted)
        /\ (~IsNil(pass) /\ ~IsNil(pass') /\ pass' # pass) => ndbsLister' = ndbsLister
        /\ \A w \in Workers :
              (workers[w].pc = "sync" /\ workers'[w].pc = "pass") =>
                  /\ Val(pass').ndb = ndbsLister.obj
                  /\ ndbsLister' = ndbsLister
        /\ \A w \in Workers :
              (workers[w].pc = "pass" /\ workers'[w].pc = "done") =>
                  ndbsLister' = ndbsLister ]_vars

\* C28 witness: a pass has recorded its generation in the stored status,
\* and the cache still holds the object the pass copied
C28_Witness ==
    /\ InPass("done")
    /\ Val(pass).result = finishProcessing
    /\ ~IsNil(ndb)
    /\ Stored.Status.ProcessedGeneration = Copy.Generation
    /\ Copy.Status.ProcessedGeneration # Copy.Generation
    /\ ndbsLister.obj = Val(pass).ndb

----------------------------------------------------------------------------
(* Convergence (checked under SpecConverge)                                *)

ResourceKey == NdbKey("ns", NdbName)

Processed == ~IsNil(ndb) /\ ~Unprocessed

\* the controller itself has no pass for the resource in store: no delayed
\* add is pending and the rate limiter does not track the key
NoPassOwed == ResourceKey \notin wq.waiting /\ wq.failures[ResourceKey] = 0

\* worker w gets the result sr back from sync in this step
SyncReturned(w, sr) ==
    /\ workers[w].pc = "pass"
    /\ workers'[w].pc = "done"
    /\ Val(pass).result = sr

\* C25: once the resource is created, a pass creates the owned workloads;
\* a pass that finds them not ready ends without error with a delayed
\* requeue; once they are ready a pass eventually records the generation in
\* status.processedGeneration, which then stays, and from some point on the
\* controller owes the resource no pass.
C25_Convergence ==
    /\ [][ (InPass("ensure") /\ pass' # pass /\ OwnerExists) =>
                (~IsNil(config') /\ ~IsNil(wl')) ]_vars
    /\ [][ (InPass("health") /\ pass' # pass /\ ~(~IsNil(wl) /\ Val(wl).Ready)) =>
                (Val(pass').pc = "done" /\ Val(pass').result = requeueInSeconds) ]_vars
    /\ [][ \A w \in Workers : SyncReturned(w, requeueInSeconds) =>
                /\ ResourceKey \in wq'.waiting
                /\ wq'.failures[ResourceKey] = 0
                /\ workers'[w].sr = Some(requeueInSeconds) ]_vars
    /\ [][ \A w \in Workers : SyncReturned(w, finishProcessing) =>
                /\ wq'.waiting = wq.waiting
                /\ wq'.failures[ResourceKey] = 0 ]_vars
    /\ ~IsNil(ndb) ~> ~IsNil(wl)
    /\ (~IsNil(wl) /\ Val(wl).Ready) ~> Processed
    /\ [][ Processed => Processed' ]_vars
    /\ Processed ~> []NoPassOwed

\* C25 witness: the workloads were not ready at first (the key waits for
\* its delayed requeue or was retried), and the resource is now processed
\* with no pass owed
C25_Witness ==
    /\ Processed
    /\ NoPassOwed
    /\ Stored.Generation = 1
    /\ Val(wl).Ready
    /\ \A w \in Workers : workers[w].pc = "get"
    /\ wq.queue = <<>>
    /\ ndbsLister.obj = ndb

----------------------------------------------------------------------------
(* syncHandler's lookup of the key (checked under SpecLookup)              *)

\* worker w is in syncHandler with key k and returns or enters sync in this step
Looks(w, k) ==
    /\ workers[w].pc = "sync"
    /\ workers[w].item = Some(k)
    /\ workers'[w] # workers[w]

\* the lister has no object for the well-formed key k
KeyGone(k) == k \in Keys /\ (k # NdbKey("ns", NdbName) \/ IsNil(ndbsLister.obj))

\* C23: syncHandler for a malformed key, or for a key the lister reports
\* NotFound, returns finishProcessing: no pass is begun, nothing is written,
\* and the key is neither re-queued with backoff nor after a delay; for any
\* other lister error it returns an error and the key is re-queued with
\* backoff; otherwise it enters sync.
C23_LookupOutcome ==
    [][ \A w \in Workers, k \in QueueKeys : Looks(w, k) =>
          IF k = MalformedKey \/ (KeyGone(k) /\ ~ndbsLister.failing)
          THEN /\ workers'[w] = Worker("done", Some(k), Some(finishProcessing))
               /\ UNCHANGED sysVars
               /\ wq'.waiting = wq.waiting
               /\ wq'.queue = wq.queue
               /\ wq'.failures[k] = 0
          ELSE IF ndbsLister.failing
          THEN /\ workers'[w] = Worker("done", Some(k), Some(errorWhileProcessing))
               /\ UNCHANGED sysVars
               /\ k \in wq'.waiting
               /\ wq'.failures[k] = Min(wq.failures[k] + 1, MaxFailures)
          ELSE /\ workers'[w] = Worker("pass", Some(k), nil)
               /\ ~IsNil(pass')
               /\ wq' = wq ]_vars

\* C23 witness: the pass for the key of a resource the cache does not hold
\* has ended without error: no pass record, nothing waiting for a retry
C23_Witness ==
    \E w \in Workers :
        /\ workers[w] = Worker("done", Some(NdbKey("ns", NdbName)), Some(finishProcessing))
        /\ IsNil(ndbsLister.obj)
        /\ IsNil(pass)
        /\ adds[NdbKey("ns", NdbName)] = 0
        /\ wq.waiting = {}

\* a pass for the string that is no key has ended without error
C23_WitnessMalformed ==
    \E w \in Workers :
        workers[w] = Worker("done", Some(MalformedKey), Some(finishProcessing))

----------------------------------------------------------------------------
(* The root password secret (checked under SpecSecret)                     *)

\* EnsureSecret is called in this step
Ensures == IsNil(fixture.ret) /\ ~IsNil(fixture'.ret)

----------------------------------------------------------------------------
(* One spec change in flight (checked under Spec)                          *)

\* C31: with every spec write admitted by validateUpdate against the stored
\* object, generation - status.processedGeneration is at most 1 for an
\* existing resource: no second spec change is persisted while an earlier
\* one is unprocessed.
C31_SingleInFlightUpdate ==
    ~IsNil(ndb) => Stored.Generation - Stored.Status.ProcessedGeneration <= 1

\* C31 witness: the third generation is stored, admitted only after the
\* second was processed
C31_Witness ==
    /\ ~IsNil(ndb)
    /\ Stored.Generation = 3
    /\ Stored.Status.ProcessedGeneration = 2
    /\ areq.kind = "update"
    /\ resp.Allowed

----------------------------------------------------------------------------
(* Get and Done of a pass (checked under SpecItems)                        *)

\* the workers that popped item i and have not released it
Holders(i) ==
    {w \in Workers : workers[w].pc \in {"sync", "done"} /\ workers[w].item = Some(i)}

\* worker w ends a pass for item i in this step
PassEnds(w, i) ==
    /\ workers[w].item = Some(i)
    /\ workers[w].pc \in {"sync", "done"}
    /\ workers'[w].pc \notin {"sync", "done"}

\* C32: every item popped with Get is released with Done exactly once on
\* every path of processNextWorkItem (item that is not a string, failed pass,
\* success with and without requeue): the in-flight mark is set by the pop,
\* stays while the pass and its requeue calls run, and is removed by the one
\* Done that ends the pass, so no item is marked in-flight without a pass.
C32_DoneOncePerGet ==
    [][ \A i \in Items : \A w \in Workers :
          /\ (i \in wq.processing) = (Holders(i) # {})
          /\ Cardinality(Holders(i)) <= 1
          /\ (i \in wq.processing /\ i \notin wq'.processing)
                => \E v \in Workers : PassEnds(v, i) /\ workers[v].pc = "done"
          /\ PassEnds(w, i) => (i \in wq.processing /\ i \notin wq'.processing)
          /\ (workers[w].item = Some(i) /\ workers[w].pc = "sync"
                /\ workers'[w].pc # "sync")
                => /\ workers'[w] = Worker("done", Some(i), workers'[w].sr)
                   /\ i \in wq'.processing
                   /\ Val(workers'[w].sr) = errorWhileProcessing
                        => (wq'.shuttingDown \/ i \in wq'.waiting)
                   /\ Val(workers'[w].sr) = requeueInSeconds
                        => (wq'.shuttingDown \/ i \in wq'.waiting)
          /\ (workers[w].pc = "done" /\ workers[w].item = Some(i))
                => (wq'.waiting = wq.waiting \/ workers'[w] = workers[w])
      ]_vars

\* C32 witness: an item that is not a string was popped and forgotten, and
\* its deferred Done is about to run, while another worker holds a key
\* whose failed pass has been re-queued and not yet released
C32_Witness ==
    \E w, v \in Workers : \E k \in Keys :
        /\ workers[w] = Worker("done", Some(NonStringItem), nil)
        /\ workers[v] = Worker("done", Some(k), Some(errorWhileProcessing))
        /\ wq.processing = {NonStringItem, k}
        /\ k \in wq.waiting

----------------------------------------------------------------------------
(* The keys of owned workloads (checked under SpecEvents)                  *)

\* the workload an update or delete notification is about
Workload33 == IF Ev.type = "update" THEN NewObj ELSE OldObj

\* an update or delete notification of a workload has been handled
WorkloadHandled ==
    \E kind \in {"Deployment", "StatefulSet"}, type \in {"update", "delete"} :
        Handled(kind, type)

C33_WitnessUnlabelled ==
    /\ Handled("Deployment", "update")
    /\ IsNil(NewObj.Labels)
    /\ NewObj.Complete
    /\ Skipped

----------------------------------------------------------------------------
(* The MySQL Server StatefulSet (checked under SpecBuild)                  *)

\* the builds made so far
Builds == {b \in {built.first, built.second} : ~IsNil(b)}

PodTemplate(b) == Val(b).statefulSet.Spec.Template

\* C34: the StatefulSet built by NewStatefulSet carries the config summary's
\* MySQLServerConfigVersion in its pod template annotations: two builds for
\* the same cluster with different versions differ in the pod template, two
\* builds with the same version and cluster give the same template, and the
\* replica count is the cluster's MySQL Server node count.
C34_TemplateCarriesConfigVersion ==
    /\ \A b \in Builds :
        /\ LastAppliedMySQLServerConfigVersion \in DOMAIN PodTemplate(b).Annotations
        /\ Val(b).statefulSet.Spec.Replicas = Some(Val(b).nc.Spec.Mysqld.NodeCount)
    /\ \A b1, b2 \in Builds :
        Val(b1).nc = Val(b2).nc =>
            ( (PodTemplate(b1) = PodTemplate(b2))
                <=> (Val(b1).cs.MySQLServerConfigVersion
                        = Val(b2).cs.MySQLServerConfigVersion) )

\* C34 witness: two builds for one cluster of two MySQL Servers with
\* different config versions, whose pod templates differ
C34_Witness ==
    /\ ~IsNil(built.first) /\ ~IsNil(built.second)
    /\ Val(built.first).nc = Val(built.second).nc
    /\ Val(built.first).nc.Spec.Mysqld.NodeCount = 2
    /\ Val(built.first).cs.MySQLServerConfigVersion = 1
    /\ Val(built.second).cs.MySQLServerConfigVersion = 2
    /\ PodTemplate(built.first) # PodTemplate(built.second)
    /\ Val(built.second).statefulSet.Spec.Replicas = Some(2)

----------------------------------------------------------------------------
(* Properties of the e2e test runner (SpecRunner, SpecRunnerFair)          *)

\* the signal handler holds sigMutex and handles an abort signal that
\* arrived while no command process is running
AbortHandled ==
    /\ testRunner.handler.pc = "handle"
    /\ Val(testRunner.handler.sig) \in AbortSignals
    /\ IsNil(testRunner.process)

\* C35: when SIGINT, SIGQUIT or SIGTSTP arrives while no command process is
\* running, the signal handler tears down the cluster and then exits the
\* program, for the local and for the KinD provider: the teardown completes
\* and the handler does not block forever.
C35_AbortTearsDownAndExits == AbortHandled ~> Exited

\* what holds of C35: with the local provider the handler exits the program
C35_LocalAbortExits ==
    (AbortHandled /\ testRunner.p = Some("local")) ~> Exited

\* goroutine g is inside execCommand
ExecutesCommand(g) ==
    testRunner[g].pc \in {"exec.lock", "exec.start", "exec.wait", "exec.reset"}

\* C36: execCommand never returns while still holding sigMutex: on every
\* return path, the failure of cmd.Start included, the mutex is released and
\* t.process is nil.
C36_ExecCommandReleasesMutex ==
    [][ \A g \in Goroutines :
          (ExecutesCommand(g) /\ ~ExecutesCommand(g)')
              => (testRunner'.sigMutex # g /\ IsNil(testRunner'.process)) ]_vars

\* what holds of C36: a command that was started leaves the mutex unlocked
\* and t.process nil when execCommand returns
C36_StartedCommandReleasesMutex ==
    [][ \A g \in Goroutines :
          (testRunner[g].pc = "exec.reset" /\ ~ExecutesCommand(g)')
              => (testRunner'.sigMutex = "" /\ IsNil(testRunner'.process)) ]_vars

\* run has torn down the cluster, stopped the signal handler and returned
RunCompleted ==
    /\ testRunner.main.pc = "returned"
    /\ testRunner.main.phase = "defer"
    /\ testRunner.handler.pc = "returned"

\* C37: once a provider has been chosen, run tears down the cluster, stops
\* the signal handler after the teardown and returns, whatever the commands'
\* outcomes and the signals: run terminates (an abort that exits the program
\* ends it too).
C37_RunTerminates ==
    (~IsNil(testRunner.p)) ~> (RunCompleted \/ Exited)

====
